---- MODULE Spec2Model ----
(***************************************************************************)
(* Doctor controller of MediMantra (server/controllers/doctor.controller.js) *)
(* as a state machine: the database collections, the file storage, the     *)
(* clock and the requests in flight, one action per await point of each    *)
(* handler.                                                                *)
(***************************************************************************)
EXTENDS Integers, Sequences, FiniteSets, TLC

VARIABLES
  role,      \* User collection: user id -> role ("none": no such user document)
  doctors,   \* Doctor collection: a set of profile documents
  appts,     \* Appointment collection: appointment id -> document
  files,     \* external file storage: the urls it holds
  now,       \* the server clock (new Date(), Date.now()), an instant in ticks
  tz,        \* the server's offset from UTC, in whole units of the clock
  req,       \* the requests being served: slot -> handler position and locals
  nreq,      \* number of requests received so far
  nextId,    \* next ObjectId a new Doctor document receives
  nextUrl    \* next url the storage hands out

vars == <<role, doctors, appts, files, now, tz, req, nreq, nextId, nextUrl>>

(***************************************************************************)
(* Bounds of the model.                                                    *)
(***************************************************************************)
MaxReq == 2        \* requests received in one behaviour
MaxNow == 1        \* clock ticks
MaxFiles == 1      \* files attached to one request

Slots == {1}                          \* requests in flight, transactional handlers
ReviewSlots == {1, 2}                 \* review requests in flight
UserIds == {"u0", "u1", "u2", "u3"}   \* authenticated identities; u0 has no User document
RegNos == {"r1", "r2"}
ApptIds == {"a1", "a2"}
ApptDates == {0, 1}
Statuses == {"scheduled", "completed", "cancelled", "no-show"}

(***************************************************************************)
(* Documents.                                                              *)
(***************************************************************************)
\* the fields updateDoctor and updateDoctorProfile may set
UpdatableFields ==
  {"qualifications", "specialties", "experience", "clinicDetails",
   "hospitalAffiliations", "consultationFee", "languages", "bio",
   "videoConsultation", "acceptingNewPatients"}

\* new Doctor({...}) of createDoctor: the fields the handlers of this file read;
\* reviews, averageRating and availability start from the schema's defaults.
\* profile holds the updatable fields as JavaScript values, written as
\* literals; specialties holds the specialties as the listings match them.
NewDoctor(id, userId, registrationNumber, verificationDocuments) ==
  [id |-> id, user |-> userId, registrationNumber |-> registrationNumber,
   verificationDocuments |-> verificationDocuments, isVerified |-> FALSE,
   reviews |-> <<>>, averageRating |-> [num |-> 0, den |-> 1],
   availability |-> <<>>, specialties |-> {},
   profile |-> [f \in UpdatableFields |-> "undefined"], rejectionReason |-> "",
   verificationStatus |-> "",
   v |-> 0]

\* { name, url, verified: false } pushed for an uploaded file
NewDocument(url) == [url |-> url, verified |-> FALSE]

\* const doctor before a query has filled it
NoDoctor == NewDoctor(0, "u0", "", <<>>)

(***************************************************************************)
(* Queries.                                                                *)
(***************************************************************************)
\* variant: the lookup sees verified profiles only
ExistingVerifiedDoctor(registrationNumber) ==
  {d \in doctors : d.registrationNumber = registrationNumber /\ d.isVerified}

\* Doctor.findOne({ registrationNumber })
ExistingDoctor(registrationNumber) ==
  {d \in doctors : d.registrationNumber = registrationNumber}

\* Doctor.findOne({ user: userId })
DoctorsOfUser(userId) == {d \in doctors : d.user = userId}

\* Doctor.findById(doctorId)
DoctorsById(doctorId) == {d \in doctors : d.id = doctorId}

\* variant: $gt in place of $gte
StrictlyFutureAppointments(doctorId, t) ==
  {a \in ApptIds : /\ appts[a].doctor = doctorId
                   /\ appts[a].status = "scheduled"
                   /\ appts[a].appointmentDate > t}

\* Appointment.countDocuments({doctor, status: 'scheduled', appointmentDate: {$gte: new Date()}})
ActiveAppointments(doctorId, t) ==
  {a \in ApptIds : /\ appts[a].doctor = doctorId
                   /\ appts[a].status = "scheduled"
                   /\ appts[a].appointmentDate >= t}

\* variant: the bulk update matches scheduled appointments only
ScheduledOnly(doctorId) ==
  {a \in ApptIds : appts[a].doctor = doctorId /\ appts[a].status = "scheduled"}

\* the filter of Appointment.updateMany in deleteDoctor: {doctor, status: {$ne: 'completed'}}
NotCompleted(doctorId) ==
  {a \in ApptIds : appts[a].doctor = doctorId /\ appts[a].status # "completed"}

(***************************************************************************)
(* Writes and transactions.  A write issued with { session } is buffered   *)
(* in the request's transaction and becomes visible at commitTransaction;  *)
(* a write without it is applied at once.                                  *)
(***************************************************************************)
DB == [doctors |-> doctors, role |-> role, appts |-> appts]

Apply(db, w) ==
  CASE w.kind = "doctorInsert" ->
         [db EXCEPT !.doctors = @ \cup {w.doc}]
    [] w.kind = "doctorDelete" ->
         [db EXCEPT !.doctors = {d \in @ : d.id # w.id}]
    [] w.kind = "roleSet" ->
         [db EXCEPT !.role = [@ EXCEPT ![w.user] = w.role]]
    [] w.kind = "apptCancel" ->
         [db EXCEPT !.appts = [a \in ApptIds |->
             IF a \in w.ids
               THEN [@[a] EXCEPT !.status = "cancelled",
                                 !.cancellationReason = "Doctor no longer available"]
               ELSE @[a]]]

RECURSIVE ApplyAll(_, _)
ApplyAll(db, ws) ==
  IF ws = <<>> THEN db ELSE ApplyAll(Apply(db, Head(ws)), Tail(ws))

Kinds(ws) == {ws[i].kind : i \in 1..Len(ws)}

SetDB(db) ==
  /\ doctors' = db.doctors
  /\ role' = db.role
  /\ appts' = db.appts

\* the options object each transactional write is given
WithSession == [session |-> TRUE]
NoSession == [session |-> FALSE]

createDoctor_saveOptions == WithSession        \* newDoctor.save({ session })
createDoctor_userSaveOptions == WithSession    \* user.save({ session })
deleteDoctorByAdmin_deleteOptions == WithSession
deleteDoctorByAdmin_userSaveOptions == WithSession
deleteDoctor_updateManyOptions == WithSession
deleteDoctor_deleteOptions == WithSession
deleteDoctor_userSaveOptions == WithSession

\* request r issues write w with the given options and moves to position pc
Write(r, w, options, pc) ==
  IF options.session
    THEN /\ req' = [req EXCEPT ![r].tx = Append(@, w), ![r].pc = pc]
         /\ UNCHANGED <<doctors, role, appts>>
    ELSE /\ req' = [req EXCEPT ![r].eff = @ \cup {w.kind}, ![r].pc = pc]
         /\ SetDB(Apply(DB, w))

\* the handlers that start a transaction at entry
Transactional == {"createDoctor", "deleteDoctorByAdmin", "deleteDoctor"}

\* what is left of a request once it is answered; dropped counts the buffered
\* writes its session discarded, and transaction tells how the handler left
\* the transaction it started: open unless it committed or aborted it
Done(q, code) ==
  [op |-> q.op, pc |-> "done", resp |-> code, eff |-> q.eff, tx |-> <<>>,
   dropped |-> Len(q.tx),
   transaction |-> IF q.op \in Transactional THEN "open" ELSE "none"]

\* variant: the transaction is aborted in front of every response
AbortAndRespond(r, code) ==
  req' = [req EXCEPT ![r] = [Done(@, code) EXCEPT !.transaction = "aborted"]]

\* res.status(code).json(...), then finally { session.endSession() }: an
\* uncommitted transaction is dropped with its session
Respond(r, code) ==
  req' = [req EXCEPT ![r] = Done(@, code)]

\* what is left of a request whose handler ended by a rejection nothing
\* caught: no response was sent (resp 0)
Unanswered(q) == Done(q, 0)

\* const session = await mongoose.startSession(); session.startTransaction():
\* the two calls stand before the try block, so when one of them fails the
\* handler ends without a response
StartSession(q, started) == IF started THEN q ELSE Unanswered(q)

\* catch (error) { await session.abortTransaction(); res.status(500) }: the
\* response is sent unless abortTransaction itself throws, which it may do
\* once commitTransaction has been called on the session
Catch(r, committing) ==
  \E answered \in BOOLEAN :
    /\ ~answered => req[r].pc = committing
    /\ req' = [req EXCEPT ![r] =
                 IF answered THEN [Done(@, 500) EXCEPT !.transaction = "aborted"]
                 ELSE Unanswered(@)]

Idle == [op |-> "idle", pc |-> "idle", resp |-> 0, eff |-> {}, tx |-> <<>>,
         dropped |-> 0, transaction |-> "none"]

Free(r) == req[r].pc \in {"idle", "done"}

At(r, op, pc) == req[r].op = op /\ req[r].pc = pc

DocIds == 1..(MaxReq + 1)

\* a request with the locals q of its handler; req.user carries the
\* requester's id and role
Request(q) ==
  q @@ [authRole |-> role[q.user], resp |-> 0, eff |-> {}, tx |-> <<>>]

\* a request arrives in a free slot, while fewer than max have been received
Arrive(r, q, max) ==
  /\ Free(r)
  /\ \A s \in DOMAIN req : s < r => ~Free(s)    \* slots are interchangeable
  /\ nreq < max
  /\ req' = [req EXCEPT ![r] = q]
  /\ nreq' = nreq + 1

\* session.commitTransaction(): the buffered writes become visible together
Commit(r, code) ==
  /\ SetDB(ApplyAll(DB, req[r].tx))
  /\ req' = [req EXCEPT ![r] =
               [Done([@ EXCEPT !.eff = @ \cup Kinds(req[r].tx), !.tx = <<>>], code)
                  EXCEPT !.transaction = "committed"]]

(***************************************************************************)
(* createDoctor, POST /api/doctors                                         *)
(***************************************************************************)
createDoctor_start(r) ==
  /\ \E u \in UserIds, reg \in RegNos, n \in 0..MaxFiles, started \in BOOLEAN :
       Arrive(r, StartSession(
                   Request([op |-> "createDoctor", pc |-> "c_findOne", user |-> u,
                            registrationNumber |-> reg, files |-> n,
                            verificationDocuments |-> <<>>, userRole |-> "none"]),
                   started), MaxReq)
  /\ UNCHANGED <<tz, role, doctors, appts, files, now, nextId, nextUrl>>

\* const existingDoctor = await Doctor.findOne({ registrationNumber })
createDoctor_findOne(r) ==
  /\ At(r, "createDoctor", "c_findOne")
  /\ IF ExistingDoctor(req[r].registrationNumber) # {}
       THEN Respond(r, 400)
       ELSE req' = [req EXCEPT ![r].pc = "c_findById"]
  /\ UNCHANGED <<tz, role, doctors, appts, files, now, nreq, nextId, nextUrl>>

\* const user = await User.findById(userId), the two guards, the first upload
createDoctor_findById(r) ==
  /\ At(r, "createDoctor", "c_findById")
  /\ LET userRole == role[req[r].user] IN
       IF userRole = "none" THEN Respond(r, 404)
       ELSE IF userRole # "doctor" /\ userRole # "admin" THEN Respond(r, 403)
       ELSE req' = [req EXCEPT ![r].userRole = userRole,
                               ![r].pc = IF req[r].files > 0 THEN "c_upload"
                                                             ELSE "c_save"]
  /\ UNCHANGED <<tz, role, doctors, appts, files, now, nreq, nextId, nextUrl>>

\* const uploadedFile = await uploadFile(file, ...); verificationDocuments.push(...)
createDoctor_upload(r) ==
  /\ At(r, "createDoctor", "c_upload")
  /\ files' = files \cup {nextUrl}
  /\ nextUrl' = nextUrl + 1
  /\ req' = [req EXCEPT ![r].verificationDocuments = Append(@, NewDocument(nextUrl)),
                        ![r].files = @ - 1,
                        ![r].eff = @ \cup {"upload"},
                        ![r].pc = IF req[r].files > 1 THEN "c_upload" ELSE "c_save"]
  /\ UNCHANGED <<tz, role, doctors, appts, now, nreq, nextId>>

\* await newDoctor.save({ session })
createDoctor_save(r) ==
  /\ At(r, "createDoctor", "c_save")
  /\ Write(r, [kind |-> "doctorInsert",
               doc |-> NewDoctor(nextId, req[r].user, req[r].registrationNumber,
                                 req[r].verificationDocuments)],
           createDoctor_saveOptions,
           IF req[r].userRole # "doctor" THEN "c_userSave" ELSE "c_commit")
  /\ nextId' = nextId + 1
  /\ UNCHANGED <<tz, files, now, nreq, nextUrl>>

\* user.role = 'doctor'; await user.save({ session })
createDoctor_userSave(r) ==
  /\ At(r, "createDoctor", "c_userSave")
  /\ Write(r, [kind |-> "roleSet", user |-> req[r].user, role |-> "doctor"],
           createDoctor_userSaveOptions, "c_commit")
  /\ UNCHANGED <<tz, files, now, nreq, nextId, nextUrl>>

\* await session.commitTransaction(); res.status(201)
createDoctor_commit(r) ==
  /\ At(r, "createDoctor", "c_commit")
  /\ Commit(r, 201)
  /\ UNCHANGED <<tz, files, now, nreq, nextId, nextUrl>>

\* an awaited database or storage call rejects: catch (error) {
\* await session.abortTransaction(); res.status(500) }
createDoctor_throw(r) ==
  /\ req[r].op = "createDoctor"
  /\ req[r].pc \in {"c_findOne", "c_findById", "c_upload", "c_save", "c_userSave",
                    "c_commit"}
  /\ Catch(r, "c_commit")
  /\ UNCHANGED <<tz, role, doctors, appts, files, now, nreq, nextId, nextUrl>>

createDoctor(r) ==
  \/ createDoctor_start(r)
  \/ createDoctor_findOne(r)
  \/ createDoctor_findById(r)
  \/ createDoctor_upload(r)
  \/ createDoctor_save(r)
  \/ createDoctor_userSave(r)
  \/ createDoctor_commit(r)
  \/ createDoctor_throw(r)

(***************************************************************************)
(* deleteDoctorByAdmin, DELETE /api/doctors/:id                            *)
(***************************************************************************)
deleteDoctorByAdmin_start(r) ==
  /\ \E u \in UserIds, id \in DocIds, started \in BOOLEAN :
       Arrive(r, StartSession(
                   Request([op |-> "deleteDoctorByAdmin", pc |-> "a_auth", user |-> u,
                            doctorId |-> id, doctor |-> NoDoctor, i |-> 1]),
                   started), MaxReq)
  /\ UNCHANGED <<tz, role, doctors, appts, files, now, nextId, nextUrl>>

\* if (req.user.role !== 'admin') return 403
deleteDoctorByAdmin_auth(r) ==
  /\ At(r, "deleteDoctorByAdmin", "a_auth")
  /\ IF req[r].authRole # "admin"
       THEN Respond(r, 403)
       ELSE req' = [req EXCEPT ![r].pc = "a_findById"]
  /\ UNCHANGED <<tz, role, doctors, appts, files, now, nreq, nextId, nextUrl>>

\* const doctor = await Doctor.findById(doctorId)
deleteDoctorByAdmin_findById(r) ==
  /\ At(r, "deleteDoctorByAdmin", "a_findById")
  /\ IF DoctorsById(req[r].doctorId) = {}
       THEN Respond(r, 404)
       ELSE \E doctor \in DoctorsById(req[r].doctorId) :
              req' = [req EXCEPT
                ![r].doctor = doctor,
                ![r].pc = IF doctor.verificationDocuments # <<>> THEN "a_deleteFile"
                                                                ELSE "a_delete"]
  /\ UNCHANGED <<tz, role, doctors, appts, files, now, nreq, nextId, nextUrl>>

\* for (const doc of doctor.verificationDocuments) await deleteFile(doc.url)
deleteDoctorByAdmin_deleteFile(r) ==
  /\ At(r, "deleteDoctorByAdmin", "a_deleteFile")
  /\ files' = files \ {req[r].doctor.verificationDocuments[req[r].i].url}
  /\ req' = [req EXCEPT ![r].i = @ + 1,
                        ![r].eff = @ \cup {"fileDelete"},
                        ![r].pc = IF req[r].i < Len(req[r].doctor.verificationDocuments)
                                    THEN "a_deleteFile" ELSE "a_delete"]
  /\ UNCHANGED <<tz, role, doctors, appts, now, nreq, nextId, nextUrl>>

\* await Doctor.findByIdAndDelete(doctorId, { session })
deleteDoctorByAdmin_delete(r) ==
  /\ At(r, "deleteDoctorByAdmin", "a_delete")
  /\ Write(r, [kind |-> "doctorDelete", id |-> req[r].doctorId],
           deleteDoctorByAdmin_deleteOptions, "a_findUser")
  /\ UNCHANGED <<tz, files, now, nreq, nextId, nextUrl>>

\* const user = await User.findById(doctor.user); if (user) user.role = 'user'
deleteDoctorByAdmin_findUser(r) ==
  /\ At(r, "deleteDoctorByAdmin", "a_findUser")
  /\ req' = [req EXCEPT ![r].pc = IF role[req[r].doctor.user] # "none" THEN "a_userSave"
                                                                 ELSE "a_commit"]
  /\ UNCHANGED <<tz, role, doctors, appts, files, now, nreq, nextId, nextUrl>>

\* await user.save({ session })
deleteDoctorByAdmin_userSave(r) ==
  /\ At(r, "deleteDoctorByAdmin", "a_userSave")
  /\ Write(r, [kind |-> "roleSet", user |-> req[r].doctor.user, role |-> "user"],
           deleteDoctorByAdmin_userSaveOptions, "a_commit")
  /\ UNCHANGED <<tz, files, now, nreq, nextId, nextUrl>>

\* await session.commitTransaction(); res.status(200)
deleteDoctorByAdmin_commit(r) ==
  /\ At(r, "deleteDoctorByAdmin", "a_commit")
  /\ Commit(r, 200)
  /\ UNCHANGED <<tz, files, now, nreq, nextId, nextUrl>>

deleteDoctorByAdmin_throw(r) ==
  /\ req[r].op = "deleteDoctorByAdmin"
  /\ req[r].pc \in {"a_findById", "a_deleteFile", "a_delete", "a_findUser",
                    "a_userSave", "a_commit"}
  /\ Catch(r, "a_commit")
  /\ UNCHANGED <<tz, role, doctors, appts, files, now, nreq, nextId, nextUrl>>

deleteDoctorByAdmin(r) ==
  \/ deleteDoctorByAdmin_start(r)
  \/ deleteDoctorByAdmin_auth(r)
  \/ deleteDoctorByAdmin_findById(r)
  \/ deleteDoctorByAdmin_deleteFile(r)
  \/ deleteDoctorByAdmin_delete(r)
  \/ deleteDoctorByAdmin_findUser(r)
  \/ deleteDoctorByAdmin_userSave(r)
  \/ deleteDoctorByAdmin_commit(r)
  \/ deleteDoctorByAdmin_throw(r)

(***************************************************************************)
(* deleteDoctor, DELETE /api/doctors                                       *)
(***************************************************************************)
deleteDoctor_start(r) ==
  /\ \E u \in UserIds, started \in BOOLEAN :
       Arrive(r, StartSession(
                   Request([op |-> "deleteDoctor", pc |-> "d_findOne", user |-> u,
                            doctor |-> NoDoctor, i |-> 1, logged |-> {}]),
                   started), MaxReq)
  /\ UNCHANGED <<tz, role, doctors, appts, files, now, nextId, nextUrl>>

\* const doctor = await Doctor.findOne({ user: userId })
deleteDoctor_findOne(r) ==
  /\ At(r, "deleteDoctor", "d_findOne")
  /\ IF DoctorsOfUser(req[r].user) = {}
       THEN Respond(r, 404)
       ELSE \E doctor \in DoctorsOfUser(req[r].user) :
              req' = [req EXCEPT ![r].doctor = doctor, ![r].pc = "d_count"]
  /\ UNCHANGED <<tz, role, doctors, appts, files, now, nreq, nextId, nextUrl>>

\* const activeAppointments = await Appointment.countDocuments({...});
\* if (activeAppointments > 0) return 400
deleteDoctor_count(r) ==
  /\ At(r, "deleteDoctor", "d_count")
  /\ IF Cardinality(ActiveAppointments(req[r].doctor.id, now)) > 0
       THEN Respond(r, 400)
       ELSE req' = [req EXCEPT ![r].pc = IF req[r].doctor.verificationDocuments # <<>>
                                          THEN "d_deleteFile" ELSE "d_updateMany"]
  /\ UNCHANGED <<tz, role, doctors, appts, files, now, nreq, nextId, nextUrl>>

\* try { await deleteFile(doc.url) } catch (err) { console.error(...) }
deleteDoctor_deleteFile(r) ==
  /\ At(r, "deleteDoctor", "d_deleteFile")
  /\ LET url == req[r].doctor.verificationDocuments[req[r].i].url
         pc == IF req[r].i < Len(req[r].doctor.verificationDocuments)
                 THEN "d_deleteFile" ELSE "d_updateMany"
     IN \/ /\ files' = files \ {url}
           /\ req' = [req EXCEPT ![r].i = @ + 1,
                                 ![r].eff = @ \cup {"fileDelete"},
                                 ![r].pc = pc]
        \/ /\ files' = files      \* deleteFile rejects: logged, the loop goes on
           /\ req' = [req EXCEPT ![r].i = @ + 1,
                                 ![r].logged = @ \cup {url},
                                 ![r].pc = pc]
  /\ UNCHANGED <<tz, role, doctors, appts, now, nreq, nextId, nextUrl>>

\* await Appointment.updateMany({doctor, status: {$ne: 'completed'}},
\*   {status: 'cancelled', cancellationReason: 'Doctor no longer available'}, {session})
deleteDoctor_updateMany(r) ==
  /\ At(r, "deleteDoctor", "d_updateMany")
  /\ Write(r, [kind |-> "apptCancel", ids |-> NotCompleted(req[r].doctor.id)],
           deleteDoctor_updateManyOptions, "d_delete")
  /\ UNCHANGED <<tz, files, now, nreq, nextId, nextUrl>>

\* await Doctor.findByIdAndDelete(doctor._id, { session })
deleteDoctor_delete(r) ==
  /\ At(r, "deleteDoctor", "d_delete")
  /\ Write(r, [kind |-> "doctorDelete", id |-> req[r].doctor.id],
           deleteDoctor_deleteOptions, "d_findUser")
  /\ UNCHANGED <<tz, files, now, nreq, nextId, nextUrl>>

\* const user = await User.findById(userId); if (user) user.role = 'user'
deleteDoctor_findUser(r) ==
  /\ At(r, "deleteDoctor", "d_findUser")
  /\ req' = [req EXCEPT ![r].pc = IF role[req[r].user] # "none" THEN "d_userSave"
                                                                ELSE "d_commit"]
  /\ UNCHANGED <<tz, role, doctors, appts, files, now, nreq, nextId, nextUrl>>

\* await user.save({ session })
deleteDoctor_userSave(r) ==
  /\ At(r, "deleteDoctor", "d_userSave")
  /\ Write(r, [kind |-> "roleSet", user |-> req[r].user, role |-> "user"],
           deleteDoctor_userSaveOptions, "d_commit")
  /\ UNCHANGED <<tz, files, now, nreq, nextId, nextUrl>>

\* await session.commitTransaction(); res.status(200)
deleteDoctor_commit(r) ==
  /\ At(r, "deleteDoctor", "d_commit")
  /\ Commit(r, 200)
  /\ UNCHANGED <<tz, files, now, nreq, nextId, nextUrl>>

deleteDoctor_throw(r) ==
  /\ req[r].op = "deleteDoctor"
  /\ req[r].pc \in {"d_findOne", "d_count", "d_updateMany", "d_delete", "d_findUser",
                    "d_userSave", "d_commit"}
  /\ Catch(r, "d_commit")
  /\ UNCHANGED <<tz, role, doctors, appts, files, now, nreq, nextId, nextUrl>>

deleteDoctor(r) ==
  \/ deleteDoctor_start(r)
  \/ deleteDoctor_findOne(r)
  \/ deleteDoctor_count(r)
  \/ deleteDoctor_deleteFile(r)
  \/ deleteDoctor_updateMany(r)
  \/ deleteDoctor_delete(r)
  \/ deleteDoctor_findUser(r)
  \/ deleteDoctor_userSave(r)
  \/ deleteDoctor_commit(r)
  \/ deleteDoctor_throw(r)

(***************************************************************************)
(* The clock and the specification of the transactional handlers.          *)
(***************************************************************************)
Tick ==
  /\ now < MaxNow
  /\ \A r \in DOMAIN req : Free(r)
  /\ now' = now + 1
  /\ UNCHANGED <<tz, role, doctors, appts, files, req, nreq, nextId, nextUrl>>

\* an Appointment document (written by the appointment controller)
Appointment(doctorId, patient, status, appointmentDate) ==
  [doctor |-> doctorId, patient |-> patient, status |-> status,
   appointmentDate |-> appointmentDate, appointmentTime |-> "09:00",
   cancellationReason |-> "", createdAt |-> 0]

\* One verified-or-not profile (id 1, owner u1, one uploaded document), a user
\* u2 registered as a doctor without a profile yet, an administrator u3, and
\* two appointments of doctor 1.
Init ==
  /\ role = [u \in UserIds |-> CASE u = "u0" -> "none" [] u = "u1" -> "doctor"
                                  [] u = "u2" -> "user" [] u = "u3" -> "admin"]
  /\ doctors = {NewDoctor(1, "u1", "r1", <<NewDocument(1)>>)}
  /\ \E s1 \in Statuses, t \in ApptDates :
       appts = [a \in ApptIds |->
                  IF a = "a1" THEN Appointment(1, "p1", s1, t)
                              ELSE Appointment(1, "p2", "completed", 0)]
  /\ files = {1}
  /\ now = 0
  /\ tz = 0
  /\ req = [r \in Slots |-> Idle]
  /\ nreq = 0
  /\ nextId = 2
  /\ nextUrl = 2

Next ==
  \/ \E r \in Slots : createDoctor(r) \/ deleteDoctorByAdmin(r) \/ deleteDoctor(r)
  \/ Tick

Spec == Init /\ [][Next]_vars

(***************************************************************************)
(* Properties of the transactional handlers.                               *)
(***************************************************************************)
DatabaseWrites == {"doctorInsert", "doctorDelete", "roleSet", "apptCancel"}

\* C1: when createDoctor looks up the request's registrationNumber and a
\* profile with that number exists, the request is answered 400 and it has
\* written nothing: no profile, no role change, no uploaded file.
C1_DuplicateRegistrationRejected ==
  [][\A r \in Slots :
       (/\ createDoctor_findOne(r)
        /\ \E d \in doctors : d.registrationNumber = req[r].registrationNumber)
       => /\ req'[r].pc = "done"
          /\ req'[r].resp = 400
          /\ req'[r].eff = {}
          /\ UNCHANGED <<doctors, role, appts, files>>]_vars

C1_Witness ==
  \E r \in Slots : req[r].op = "createDoctor" /\ req[r].pc = "done" /\ req[r].resp = 400

\* C2: when deleteDoctor counts the doctor's active appointments and one with
\* status 'scheduled' and appointmentDate at or after the current time exists,
\* the request is answered 400 and it has changed nothing: profile, files,
\* appointments and roles are as before.
C2_ActiveAppointmentsBlockDeletion ==
  [][\A r \in Slots :
       (/\ deleteDoctor_count(r)
        /\ \E a \in ApptIds : /\ appts[a].doctor = req[r].doctor.id
                              /\ appts[a].status = "scheduled"
                              /\ appts[a].appointmentDate >= now)
       => /\ req'[r].pc = "done"
          /\ req'[r].resp = 400
          /\ req'[r].eff = {}
          /\ UNCHANGED <<doctors, role, appts, files>>]_vars

C2_Witness ==
  \E r \in Slots : req[r].op = "deleteDoctor" /\ req[r].pc = "done" /\ req[r].resp = 400

\* what a successful deleteDoctor leaves in the database, apart from the files
DeleteDoctorPost(r) ==
  /\ req'[r].resp = 200
  /\ \A a \in ApptIds :
       appts[a].doctor = req[r].doctor.id =>
         IF appts[a].status # "completed"
           THEN /\ appts'[a].status = "cancelled"
                /\ appts'[a].cancellationReason = "Doctor no longer available"
           ELSE appts'[a] = appts[a]
  /\ \A d \in doctors' : d.id # req[r].doctor.id
  /\ role'[req[r].user] = "user"

\* C3 as stated: after a successful deleteDoctor the non-completed appointments
\* are cancelled with the fixed reason, the completed ones are unchanged, the
\* profile is gone, the owner's role is 'user' and every verification-document
\* file has been deleted from storage.
C3_AsStated ==
  [][\A r \in Slots :
       deleteDoctor_commit(r)
       => /\ DeleteDoctorPost(r)
          /\ \A i \in 1..Len(req[r].doctor.verificationDocuments) :
               req[r].doctor.verificationDocuments[i].url \notin files']_vars

\* C3 amended: as above, but of the verification-document files only those
\* whose deleteFile call did not reject are gone from storage (a rejected
\* delete is logged and skipped).
C3_DeleteDoctorEffects ==
  [][\A r \in Slots :
       deleteDoctor_commit(r)
       => /\ DeleteDoctorPost(r)
          /\ \A i \in 1..Len(req[r].doctor.verificationDocuments) :
               LET url == req[r].doctor.verificationDocuments[i].url IN
                 url \notin req[r].logged => url \notin files']_vars

C3_Witness ==
  /\ \E r \in Slots : /\ req[r].op = "deleteDoctor" /\ req[r].pc = "done"
                      /\ req[r].resp = 200
                      /\ "fileDelete" \in req[r].eff
  /\ \E a \in ApptIds : /\ appts[a].status = "cancelled"
                        /\ appts[a].cancellationReason = "Doctor no longer available"
  /\ \E a \in ApptIds : appts[a].status = "completed"
  /\ doctors = {}
  /\ role["u1"] = "user"

\* C4: a createDoctor, deleteDoctorByAdmin or deleteDoctor request that ends in
\* the catch block (500) has made no database write visible: no profile
\* inserted or deleted, no role set, no appointment updated.
C4_FailureRollsBack ==
  \A r \in Slots :
    (/\ req[r].op \in {"createDoctor", "deleteDoctorByAdmin", "deleteDoctor"}
     /\ req[r].pc = "done"
     /\ req[r].resp = 500)
    => req[r].eff \cap DatabaseWrites = {}

\* a request failed after it had issued writes in its transaction
C4_Witness ==
  \E r \in Slots : /\ req[r].op = "deleteDoctor" /\ req[r].pc = "done"
                  /\ req[r].resp = 500 /\ req[r].dropped = 3

\* a rejected call ends the handler of slot r on this step
Rejected(r) ==
  \/ createDoctor_throw(r)
  \/ deleteDoctorByAdmin_throw(r)
  \/ deleteDoctor_throw(r)
  \/ /\ createDoctor_start(r) \/ deleteDoctorByAdmin_start(r) \/ deleteDoctor_start(r)
     /\ req'[r].pc = "done"

\* C13: in createDoctor, deleteDoctorByAdmin and deleteDoctor, as in every
\* handler, an exception raised by a database call, a storage call or a
\* session or transaction call is answered with one 500 response, and no
\* request ends without a response.
C13_ExceptionsAnswered500 ==
  [][\A r \in Slots :
       /\ Rejected(r) => req'[r].resp = 500
       /\ (req'[r].pc = "done" /\ req'[r] # req[r]) => req'[r].resp # 0]_vars

\* a rejection inside the try block, before commitTransaction is called, is
\* answered 500
C13_RejectionsInsideTryAnswered ==
  [][\A r \in Slots :
       (/\ createDoctor_throw(r) \/ deleteDoctorByAdmin_throw(r) \/ deleteDoctor_throw(r)
        /\ req[r].pc \notin {"c_commit", "a_commit", "d_commit"})
       => req'[r].resp = 500]_vars

\* a successful createDoctor leaves the owner with role 'doctor', a successful
\* deleteDoctor or deleteDoctorByAdmin leaves the owner of the deleted profile
\* with role 'user'
C14_RoleSetOnSuccess ==
  [][\A r \in Slots :
       /\ (createDoctor_commit(r) /\ req'[r].resp = 201)
            => role'[req[r].user] = "doctor"
       /\ (deleteDoctor_commit(r) /\ req'[r].resp = 200)
            => role'[req[r].doctor.user] = "user"
       /\ (deleteDoctorByAdmin_commit(r) /\ req'[r].resp = 200
             /\ role[req[r].doctor.user] # "none")
            => role'[req[r].doctor.user] = "user"]_vars

\* C14: in every state reachable by createDoctor, deleteDoctor and
\* deleteDoctorByAdmin a user has role 'doctor' if and only if a Doctor profile
\* owned by that user exists.
C14_DoctorRoleIffProfile ==
  \A u \in UserIds : role[u] = "doctor" <=> DoctorsOfUser(u) # {}

\* C15: at most one Doctor profile refers to any given user, after any
\* sequence of createDoctor requests.
C15_OneProfilePerUser ==
  \A u \in UserIds : Cardinality(DoctorsOfUser(u)) <= 1

(***************************************************************************)
(* addDoctorReview, POST /api/doctors/:id/reviews                          *)
(*                                                                         *)
(* The handler edits the document it read and calls                        *)
(* doctor.updateAverageRating(), which recomputes the average over the     *)
(* edited list and saves the document.  The save sends the changed paths:  *)
(* a push on reviews is sent as an append ($push, version incremented), an *)
(* edit of reviews[i] as a $set of that position guarded by the version    *)
(* the document was read at, and averageRating as a $set.                  *)
(***************************************************************************)
MaxReviewReq == 2                     \* review requests received in one behaviour

\* request bodies { rating, comment }: two valid ones and one for each way a
\* rating is refused
ReviewBodies ==
  {[rating |-> 0, comment |-> "c1"], [rating |-> 1, comment |-> "c1"],
   [rating |-> 5, comment |-> "c2"], [rating |-> 6, comment |-> "c2"]}

\* Patient.findOne({ user: userId }): the Patient profiles, keyed by owning user
PatientOf(userId) ==
  CASE userId = "u2" -> "p1" [] userId = "u3" -> "p2" [] OTHER -> "none"

\* variant: any appointment unlocks the review
AnyAppointment(doctorId, patient) ==
  {a \in ApptIds : appts[a].doctor = doctorId /\ appts[a].patient = patient}

\* Appointment.findOne({ doctor: doctorId, patient: patient._id, status: 'completed' })
HadAppointment(doctorId, patient) ==
  {a \in ApptIds : /\ appts[a].doctor = doctorId
                   /\ appts[a].patient = patient
                   /\ appts[a].status = "completed"}

\* doctor.reviews.findIndex(r => r.patient.toString() === patient._id.toString()),
\* 0 for -1
FindIndex(reviews, patient) ==
  IF \E i \in 1..Len(reviews) : reviews[i].patient = patient
    THEN CHOOSE i \in 1..Len(reviews) :
           /\ reviews[i].patient = patient
           /\ \A j \in 1..(i - 1) : reviews[j].patient # patient
    ELSE 0

\* variant: the review is appended whether or not the patient has one
AlwaysPush(reviews, patient, rating, comment, date) ==
  Append(reviews, [patient |-> patient, rating |-> rating, comment |-> comment,
                   date |-> date])

\* if (existingReviewIndex > -1) { update the entry } else { doctor.reviews.push(...) }
Upsert(reviews, patient, rating, comment, date) ==
  LET existingReviewIndex == FindIndex(reviews, patient) IN
  IF existingReviewIndex > 0
    THEN [reviews EXCEPT ![existingReviewIndex].rating = rating,
                         ![existingReviewIndex].comment = comment,
                         ![existingReviewIndex].date = date]
    ELSE Append(reviews, [patient |-> patient, rating |-> rating,
                          comment |-> comment, date |-> date])

RECURSIVE SumRatings(_)
SumRatings(reviews) ==
  IF reviews = <<>> THEN 0 ELSE Head(reviews).rating + SumRatings(Tail(reviews))

\* doctor.updateAverageRating(), its computation: the mean of the ratings of
\* the document's review list, 0 for an empty list (kept as a fraction)
updateAverageRating(reviews) ==
  IF reviews = <<>> THEN [num |-> 0, den |-> 1]
                    ELSE [num |-> SumRatings(reviews), den |-> Len(reviews)]

\* the stored document after the save of updateAverageRating() has been
\* applied to it: q is the request, d the stored document
SaveReview(q, d) ==
  IF q.existingReviewIndex > 0
    THEN [d EXCEPT !.reviews[q.existingReviewIndex] = q.reviews[q.existingReviewIndex],
                   !.averageRating = q.averageRating]
    ELSE [d EXCEPT !.reviews = Append(@, q.reviews[Len(q.reviews)]),
                   !.averageRating = q.averageRating,
                   !.v = @ + 1]

\* whether that save matches a stored document: the _id, and for an edit of
\* reviews[i] the version the document was read at
SaveMatches(q, d) ==
  /\ d.id = q.doctor.id
  /\ q.existingReviewIndex > 0 => d.v = q.doctor.v

\* the request arrives; if (!rating || rating < 1 || rating > 5) return 400
addDoctorReview_start(r) ==
  /\ \E u \in {"u1", "u2", "u3"}, id \in {1, 2}, body \in ReviewBodies :
       LET q == Request([op |-> "addDoctorReview", pc |-> "r_findById", user |-> u,
                         doctorId |-> id, rating |-> body.rating,
                         comment |-> body.comment, doctor |-> NoDoctor,
                         reviews |-> <<>>, existingReviewIndex |-> 0, date |-> 0,
                         averageRating |-> [num |-> 0, den |-> 1]])
       IN Arrive(r, IF body.rating = 0 \/ body.rating < 1 \/ body.rating > 5
                      THEN Done(q, 400) ELSE q,
                 MaxReviewReq)
  /\ UNCHANGED <<tz, role, doctors, appts, files, now, nextId, nextUrl>>

\* const doctor = await Doctor.findById(doctorId)
addDoctorReview_findById(r) ==
  /\ At(r, "addDoctorReview", "r_findById")
  /\ IF DoctorsById(req[r].doctorId) = {}
       THEN Respond(r, 404)
       ELSE \E doctor \in DoctorsById(req[r].doctorId) :
              req' = [req EXCEPT ![r].doctor = doctor, ![r].pc = "r_findPatient"]
  /\ UNCHANGED <<tz, role, doctors, appts, files, now, nreq, nextId, nextUrl>>

\* const patient = await Patient.findOne({ user: userId })
addDoctorReview_findPatient(r) ==
  /\ At(r, "addDoctorReview", "r_findPatient")
  /\ IF PatientOf(req[r].user) = "none"
       THEN Respond(r, 404)
       ELSE req' = [req EXCEPT ![r].pc = "r_findAppointment"]
  /\ UNCHANGED <<tz, role, doctors, appts, files, now, nreq, nextId, nextUrl>>

\* const hadAppointment = await Appointment.findOne({...}); if none, 403;
\* else edit doctor.reviews in memory and call doctor.updateAverageRating()
addDoctorReview_findAppointment(r) ==
  /\ At(r, "addDoctorReview", "r_findAppointment")
  /\ LET patient == PatientOf(req[r].user)
         reviews == Upsert(req[r].doctor.reviews, patient, req[r].rating,
                           req[r].comment, now)
     IN IF HadAppointment(req[r].doctorId, patient) = {}
          THEN Respond(r, 403)
          ELSE req' = [req EXCEPT
                 ![r].existingReviewIndex = FindIndex(req[r].doctor.reviews, patient),
                 ![r].reviews = reviews,
                 ![r].date = now,
                 ![r].averageRating = updateAverageRating(reviews),
                 ![r].pc = "r_save"]
  /\ UNCHANGED <<tz, role, doctors, appts, files, now, nreq, nextId, nextUrl>>

\* await doctor.updateAverageRating() resolves: the save is applied;
\* res.status(200).json({ data: doctor.reviews })
addDoctorReview_save(r) ==
  /\ At(r, "addDoctorReview", "r_save")
  /\ \E d \in doctors :
       /\ SaveMatches(req[r], d)
       /\ doctors' = (doctors \ {d}) \cup {SaveReview(req[r], d)}
  /\ req' = [req EXCEPT ![r] = Done([@ EXCEPT !.eff =
                 {IF req[r].existingReviewIndex > 0 THEN "reviewSet" ELSE "reviewPush"}],
                 200)]
  /\ UNCHANGED <<tz, role, appts, files, now, nreq, nextId, nextUrl>>

\* an awaited call rejects (a database error, or the save matching no
\* document: VersionError): catch (error) { res.status(500) }
addDoctorReview_throw(r) ==
  /\ req[r].op = "addDoctorReview"
  /\ req[r].pc \in {"r_findById", "r_findPatient", "r_findAppointment", "r_save"}
  /\ Respond(r, 500)
  /\ UNCHANGED <<tz, role, doctors, appts, files, now, nreq, nextId, nextUrl>>

addDoctorReview(r) ==
  \/ addDoctorReview_start(r)
  \/ addDoctorReview_findById(r)
  \/ addDoctorReview_findPatient(r)
  \/ addDoctorReview_findAppointment(r)
  \/ addDoctorReview_save(r)
  \/ addDoctorReview_throw(r)

\* Date.now() of one request may differ from that of a concurrent one
ReviewTick ==
  /\ now < MaxNow
  /\ now' = now + 1
  /\ UNCHANGED <<tz, role, doctors, appts, files, req, nreq, nextId, nextUrl>>

\* Doctor 1, without reviews or with one review by p2; patient p2 has completed
\* an appointment with it, patient p1 has an appointment in any status.
InitReview ==
  /\ role = [u \in UserIds |-> CASE u = "u0" -> "none" [] u = "u1" -> "doctor"
                                  [] u = "u2" -> "user" [] u = "u3" -> "user"]
  /\ \E reviews \in {<<>>, <<[patient |-> "p2", rating |-> 3, comment |-> "c1",
                                date |-> 0]>>} :
       doctors = {[NewDoctor(1, "u1", "r1", <<>>) EXCEPT
                     !.reviews = reviews,
                     !.averageRating = updateAverageRating(reviews),
                     !.v = Len(reviews)]}
  /\ \E s1 \in {"completed", "scheduled"} :
       appts = [a \in ApptIds |->
                  IF a = "a1" THEN Appointment(1, "p1", s1, 0)
                              ELSE Appointment(1, "p2", "completed", 0)]
  /\ files = {}
  /\ now = 0
  /\ tz = 0
  /\ req = [r \in ReviewSlots |-> Idle]
  /\ nreq = 0
  /\ nextId = 2
  /\ nextUrl = 1

NextReview ==
  \/ \E r \in ReviewSlots : addDoctorReview(r)
  \/ ReviewTick

SpecReview == InitReview /\ [][NextReview]_vars

(***************************************************************************)
(* Properties of addDoctorReview.                                          *)
(***************************************************************************)
\* C5: when the document addDoctorReview read holds an entry of the
\* requesting patient and the request succeeds, the stored review list keeps
\* its length, the entries of the other patients are unchanged and the
\* patient's entry carries the request's rating and comment and the date of
\* the edit; the list sent in the response has the length of the list read.
C5_ReviewUpdatedInPlace ==
  [][\A r \in ReviewSlots :
       (/\ addDoctorReview_save(r)
        /\ \E i \in 1..Len(req[r].doctor.reviews) :
             req[r].doctor.reviews[i].patient = PatientOf(req[r].user))
       => /\ req'[r].resp = 200
          /\ Len(req[r].reviews) = Len(req[r].doctor.reviews)
          /\ \E d \in doctors, e \in doctors' :
               /\ d.id = req[r].doctorId
               /\ e.id = req[r].doctorId
               /\ Len(e.reviews) = Len(d.reviews)
               /\ \A j \in 1..Len(d.reviews) :
                    d.reviews[j].patient # PatientOf(req[r].user)
                      => e.reviews[j] = d.reviews[j]
               /\ \E j \in 1..Len(e.reviews) :
                    e.reviews[j] = [patient |-> PatientOf(req[r].user),
                                    rating |-> req[r].rating,
                                    comment |-> req[r].comment,
                                    date |-> req[r].date]]_vars

\* a review was overwritten with a later date
C5_Witness ==
  /\ \E r \in ReviewSlots : /\ req[r].op = "addDoctorReview" /\ req[r].pc = "done"
                            /\ req[r].resp = 200 /\ "reviewSet" \in req[r].eff
  /\ \E d \in doctors : Len(d.reviews) = 1 /\ d.reviews[1].date = 1

\* C6: addDoctorReview answers 200 only if a completed appointment between the
\* requesting patient and the doctor exists; when its appointment lookup finds
\* none it answers 403 and the doctor's reviews and average rating are unchanged.
C6_ReviewNeedsCompletedAppointment ==
  [][\A r \in ReviewSlots :
       LET completed ==
             \E a \in ApptIds : /\ appts[a].doctor = req[r].doctorId
                                /\ appts[a].patient = PatientOf(req[r].user)
                                /\ appts[a].status = "completed"
       IN /\ (/\ req[r].op = "addDoctorReview"
              /\ req[r].pc # "done"
              /\ req'[r].pc = "done"
              /\ req'[r].resp = 200) => completed
          /\ (addDoctorReview_findAppointment(r) /\ ~completed)
               => /\ req'[r].pc = "done"
                  /\ req'[r].resp = 403
                  /\ req'[r].eff = {}
                  /\ doctors' = doctors]_vars

C6_Witness ==
  \E r \in ReviewSlots :
    req[r].op = "addDoctorReview" /\ req[r].pc = "done" /\ req[r].resp = 403

\* C7: whenever no review request is in progress, every doctor's averageRating
\* equals the mean of the ratings in its review list.
C7_AverageIsMeanWhenQuiescent ==
  (\A r \in DOMAIN req : Free(r))
  => \A d \in doctors :
       d.averageRating.num * Len(d.reviews) = SumRatings(d.reviews) * d.averageRating.den

\* C8: a doctor's review list holds at most one entry per patient.
C8_OneReviewPerPatient ==
  \A d \in doctors :
    \A i, j \in 1..Len(d.reviews) :
      i # j => d.reviews[i].patient # d.reviews[j].patient

(***************************************************************************)
(* getMonthlyAppointmentStats(doctorId), the helper of the dashboard.      *)
(*                                                                         *)
(* Instants are counted in ticks from 2024-01-01T00:00Z; every month lasts *)
(* TicksPerMonth ticks.  The server's wall clock is tz ticks ahead of UTC  *)
(* (behind, if negative); an offset is shorter than a month.  The Date     *)
(* getters and the Date(year, month, day) constructor of the handler work  *)
(* in server-local time, the $month and $year operators of the aggregation *)
(* in UTC.                                                                 *)
(***************************************************************************)
TicksPerMonth == 2       \* granularity of the clock within a month
MaxStatsReq == 1         \* calls of the helper in one behaviour

Offsets == {-1, 0, 1}    \* server offsets from UTC
DoctorIds == {1, 2}

\* const months = ['Jan', ..., 'Dec']
months == <<"Jan", "Feb", "Mar", "Apr", "May", "Jun",
            "Jul", "Aug", "Sep", "Oct", "Nov", "Dec">>

\* months elapsed since January 2024 at instant t, on the UTC calendar
UTCMonthIndex(t) == t \div TicksPerMonth

\* the same on the server's local calendar
LocalMonthIndex(t) == (t + tz) \div TicksPerMonth

\* { $month: "$createdAt" } and { $year: "$createdAt" }: UTC, month 1..12
DollarMonth(t) == (UTCMonthIndex(t) % 12) + 1
DollarYear(t) == 2024 + (UTCMonthIndex(t) \div 12)

\* date.getMonth() (0..11) and date.getFullYear(): server-local
getMonth(t) == LocalMonthIndex(t) % 12
getFullYear(t) == 2024 + (LocalMonthIndex(t) \div 12)

\* new Date(year, month, 1): local midnight of the first day of that month; a
\* month outside 0..11 carries into the year
Date(year, month) ==
  (((year + (month \div 12) - 2024) * 12) + (month % 12)) * TicksPerMonth - tz

\* the aggregation pipeline: $match on doctor and createdAt >= since, $group
\* by UTC month and year with { $sum: 1 } ($sort does not matter to find)
Aggregate(doctorId, since) ==
  LET matched == {a \in ApptIds : /\ appts[a].doctor = doctorId
                                  /\ appts[a].createdAt >= since}
      ids == {[month |-> DollarMonth(appts[a].createdAt),
               year |-> DollarYear(appts[a].createdAt)] : a \in matched}
  IN {[_id |-> id,
       count |-> Cardinality({a \in matched :
                   /\ DollarMonth(appts[a].createdAt) = id.month
                   /\ DollarYear(appts[a].createdAt) = id.year})] : id \in ids}

\* the body of the loop for one i: the entry for the month i months back
StatsEntry(appointments, t, i) ==
  LET d == Date(getFullYear(t), getMonth(t) - i)
      month == getMonth(d)
      year == getFullYear(d)
      found == {a \in appointments : a._id.month = month + 1 /\ a._id.year = year}
  IN [month |-> months[month + 1], year |-> year,
      count |-> IF found = {} THEN 0 ELSE (CHOOSE a \in found : TRUE).count]

\* for (let i = 0; i < 6; i++) { ...; results.unshift(entry) }
RECURSIVE FillMonths(_, _, _, _)
FillMonths(appointments, t, i, results) ==
  IF i < 6
    THEN FillMonths(appointments, t, i + 1,
                    <<StatsEntry(appointments, t, i)>> \o results)
    ELSE results

\* the helper is called: const now = new Date(); sixMonthsAgo; the
\* aggregation is sent
getMonthlyAppointmentStats_call(r) ==
  /\ \E id \in DoctorIds :
       Arrive(r, [op |-> "getMonthlyAppointmentStats", pc |-> "m_aggregate",
                  doctorId |-> id, now |-> now,
                  sixMonthsAgo |-> Date(getFullYear(now), getMonth(now) - 5),
                  results |-> <<>>, resp |-> 0, eff |-> {}, tx |-> <<>>],
              MaxStatsReq)
  /\ UNCHANGED <<tz, role, doctors, appts, files, now, nextId, nextUrl>>

\* await Appointment.aggregate([...]) resolves; the loop fills the six
\* entries; return results (resp 200 stands for the return)
getMonthlyAppointmentStats_aggregate(r) ==
  /\ At(r, "getMonthlyAppointmentStats", "m_aggregate")
  /\ LET appointments == Aggregate(req[r].doctorId, req[r].sixMonthsAgo)
     IN req' = [req EXCEPT ![r] =
                  Done(@, 200) @@
                  [doctorId |-> @.doctorId, now |-> @.now,
                   results |-> FillMonths(appointments, @.now, 0, <<>>)]]
  /\ UNCHANGED <<tz, role, doctors, appts, files, now, nreq, nextId, nextUrl>>

\* the aggregation rejects: the error reaches the catch of the dashboard
\* handler, which answers 500
getMonthlyAppointmentStats_throw(r) ==
  /\ At(r, "getMonthlyAppointmentStats", "m_aggregate")
  /\ Respond(r, 500)
  /\ UNCHANGED <<tz, role, doctors, appts, files, now, nreq, nextId, nextUrl>>

getMonthlyAppointmentStats(r) ==
  \/ getMonthlyAppointmentStats_call(r)
  \/ getMonthlyAppointmentStats_aggregate(r)
  \/ getMonthlyAppointmentStats_throw(r)

\* The current instant lies in January to June 2025, so that the window does
\* or does not reach into 2024; two appointments were created up to seven
\* months before it, the first for doctor 1.
InitStats ==
  /\ role = [u \in UserIds |-> IF u = "u1" THEN "doctor" ELSE "none"]
  /\ doctors = {NewDoctor(1, "u1", "r1", <<>>)}
  /\ tz \in Offsets
  /\ now \in (12 * TicksPerMonth)..(18 * TicksPerMonth - 1)
  /\ \E k1, k2 \in 0..(7 * TicksPerMonth), id2 \in DoctorIds :
       /\ k1 <= k2
       /\ appts = [a \in ApptIds |->
                     IF a = "a1"
                       THEN [Appointment(1, "p1", "scheduled", 0)
                               EXCEPT !.createdAt = now - k1]
                       ELSE [Appointment(id2, "p2", "completed", 0)
                               EXCEPT !.createdAt = now - k2]]
  /\ files = {}
  /\ req = [r \in Slots |-> Idle]
  /\ nreq = 0
  /\ nextId = 2
  /\ nextUrl = 1

NextStats == \E r \in Slots : getMonthlyAppointmentStats(r)

SpecStats == InitStats /\ [][NextStats]_vars

(***************************************************************************)
(* Properties of getMonthlyAppointmentStats.                               *)
(***************************************************************************)
\* months since January 2024 of a result entry { month, year, count }
EntryMonthIndex(e) ==
  ((e.year - 2024) * 12) + (CHOOSE m \in 1..12 : months[m] = e.month) - 1

\* the helper has returned in slot r
StatsReturned(r) ==
  /\ req[r].op = "getMonthlyAppointmentStats"
  /\ req[r].pc = "done"
  /\ req[r].resp = 200

\* the result has six entries for consecutive months, oldest first, the last
\* of which is the month of the call
SixConsecutiveMonths(r) ==
  /\ Len(req[r].results) = 6
  /\ \A k \in 1..5 :
       EntryMonthIndex(req[r].results[k + 1]) = EntryMonthIndex(req[r].results[k]) + 1
  /\ EntryMonthIndex(req[r].results[6])
       \in {LocalMonthIndex(req[r].now), UTCMonthIndex(req[r].now)}

\* the doctor's appointments created in month index m of a calendar
CreatedInMonth(doctorId, m, local) ==
  {a \in ApptIds : /\ appts[a].doctor = doctorId
                   /\ m = IF local THEN LocalMonthIndex(appts[a].createdAt)
                                   ELSE UTCMonthIndex(appts[a].createdAt)}

\* the window of a returned result is six consecutive months ending with the
\* month of the call, across a year boundary too
C9_WindowShape ==
  \A r \in Slots : StatsReturned(r) => SixConsecutiveMonths(r)

\* C9: getMonthlyAppointmentStats returns six entries, one per calendar month
\* for the current month and the five before it, consecutive across a year
\* boundary, oldest first, and each count is the number of the doctor's
\* appointments created in that month (0 for a month with none), the months
\* being read on one calendar, the server's or UTC.
C9_MonthlyCounts ==
  \A r \in Slots :
    StatsReturned(r) =>
      /\ SixConsecutiveMonths(r)
      /\ \E local \in BOOLEAN :
           \A k \in 1..6 :
             req[r].results[k].count =
               Cardinality(CreatedInMonth(req[r].doctorId,
                                          EntryMonthIndex(req[r].results[k]), local))

\* the same on a server whose clock is UTC
C9_MonthlyCountsUTCServer ==
  tz = 0 => C9_MonthlyCounts

(***************************************************************************)
(* getDoctorAvailability, GET /api/doctors/:id/availability?date=, and     *)
(* updateAvailability, PUT /api/doctors/availability.                      *)
(*                                                                         *)
(* Instants are counted in ticks from 2024-01-01T00:00Z, a Monday; a       *)
(* second lasts TicksPerSecond ticks and a day SecondsPerDay seconds, the  *)
(* last of which is 23:59:59.  The server's clock is tz seconds ahead of   *)
(* UTC.  getDay() and setHours() work in server-local time.                *)
(***************************************************************************)
TicksPerSecond == 2      \* granularity of the clock within a second
SecondsPerDay == 2       \* seconds of a day
MaxAvailReq == 2         \* availability requests received in one behaviour

TicksPerDay == SecondsPerDay * TicksPerSecond

\* ['Sunday', 'Monday', ..., 'Saturday']
dayNames == <<"Sunday", "Monday", "Tuesday", "Wednesday", "Thursday", "Friday",
              "Saturday">>

\* days elapsed since 2024-01-01 at instant t on the server's calendar
LocalDay(t) == (t + (tz * TicksPerSecond)) \div TicksPerDay

\* queryDate.getDay(): 0 for Sunday; day 0 is a Monday
getDay(t) == (LocalDay(t) + 1) % 7

\* date.getMilliseconds(): the part of the instant below the second
getMilliseconds(t) == t % TicksPerSecond

\* date.setHours(h, m, s) with s counted in seconds of the day: the local
\* day and the milliseconds of the date are kept
setHours(t, s) ==
  (LocalDay(t) * TicksPerDay) - (tz * TicksPerSecond)
    + (s * TicksPerSecond) + getMilliseconds(t)

\* new Date(queryDate.setHours(0, 0, 0)) and new Date(queryDate.setHours(23, 59, 59))
StartOfDay(t) == setHours(t, 0)
EndOfDay(t) == setHours(t, SecondsPerDay - 1)

\* the time slots a weekday entry may carry
SlotLists == {<<>>, <<[startTime |-> "09:00", endTime |-> "10:00"],
                      [startTime |-> "10:00", endTime |-> "11:00"]>>}

\* availability arrays: entries { day, isAvailable, slots }, also with two
\* entries for one weekday
Availabilities ==
  {<<>>}
  \cup {<<[day |-> "Monday", isAvailable |-> b, slots |-> sl]>> :
          b \in BOOLEAN, sl \in SlotLists}
  \cup {<<[day |-> "Monday", isAvailable |-> b, slots |-> <<>>],
          [day |-> "Monday", isAvailable |-> ~b, slots |-> <<>>],
          [day |-> "Tuesday", isAvailable |-> TRUE, slots |-> <<>>]>> :
          b \in BOOLEAN}

\* the date query parameter: absent, not a date, or a date read as the
\* instant new Date(date); Monday 8, Tuesday 9 and the days beside them
QueryDates ==
  {[kind |-> "absent", t |-> 0], [kind |-> "invalid", t |-> 0]}
  \cup {[kind |-> "valid", t |-> t] : t \in (7 * TicksPerDay)..(9 * TicksPerDay - 1)}

\* Appointment.find({ doctor, appointmentDate: { $gte, $lt }, status: { $nin } })
\*   .select('appointmentTime'), mapped to the appointment times
BookedSlots(doctorId, queryDate) ==
  {appts[a].appointmentTime : a \in
     {a \in ApptIds : /\ appts[a].doctor = doctorId
                      /\ appts[a].appointmentDate >= StartOfDay(queryDate)
                      /\ appts[a].appointmentDate < EndOfDay(queryDate)
                      /\ appts[a].status \notin {"cancelled", "no-show"}}}

\* doctor.availability.find(a => a.day === dayOfWeek): its position, 0 if none
FindDay(availability, dayOfWeek) ==
  IF \E i \in 1..Len(availability) : availability[i].day = dayOfWeek
    THEN CHOOSE i \in 1..Len(availability) :
           /\ availability[i].day = dayOfWeek
           /\ \A j \in 1..(i - 1) : availability[j].day # dayOfWeek
    ELSE 0

\* variant: only a missing entry counts as unavailable
MissingOnly(availability, dayAvailability) ==
  dayAvailability = 0

\* !dayAvailability || !dayAvailability.isAvailable
DayUnavailable(availability, dayAvailability) ==
  \/ dayAvailability = 0
  \/ ~availability[dayAvailability].isAvailable

\* dayAvailability.slots.map(slot => ({ ...slot, isBooked: bookedSlots.includes(slot.startTime) }))
MarkBooked(slots, bookedSlots) ==
  [i \in 1..Len(slots) |->
     [startTime |-> slots[i].startTime, endTime |-> slots[i].endTime,
      isBooked |-> slots[i].startTime \in bookedSlots]]

\* the request arrives
getDoctorAvailability_start(r) ==
  /\ \E id \in DoctorIds, date \in QueryDates :
       Arrive(r, Request([op |-> "getDoctorAvailability", pc |-> "v_findById",
                          user |-> "u0", doctorId |-> id, date |-> date,
                          doctor |-> NoDoctor]), MaxAvailReq)
  /\ UNCHANGED <<tz, role, doctors, appts, files, now, nextId, nextUrl>>

\* const doctor = await Doctor.findById(doctorId); without a date the whole
\* schedule is returned, with one the appointments of that day are queried
getDoctorAvailability_findById(r) ==
  /\ At(r, "getDoctorAvailability", "v_findById")
  /\ IF DoctorsById(req[r].doctorId) = {}
       THEN Respond(r, 404)
       ELSE \E doctor \in DoctorsById(req[r].doctorId) :
              IF req[r].date.kind = "absent"
                THEN req' = [req EXCEPT ![r] =
                               Done(@, 200) @@ [schedule |-> doctor.availability]]
                ELSE req' = [req EXCEPT ![r].doctor = doctor, ![r].pc = "v_find"]
  /\ UNCHANGED <<tz, role, doctors, appts, files, now, nreq, nextId, nextUrl>>

\* await Appointment.find(...) resolves; the weekday's entry decides between
\* the two 200 responses
getDoctorAvailability_find(r) ==
  /\ At(r, "getDoctorAvailability", "v_find")
  /\ req[r].date.kind = "valid"
  /\ LET queryDate == req[r].date.t
         dayOfWeek == dayNames[getDay(queryDate) + 1]
         bookedSlots == BookedSlots(req[r].doctorId, queryDate)
         availability == req[r].doctor.availability
         dayAvailability == FindDay(availability, dayOfWeek)
         data == IF DayUnavailable(availability, dayAvailability)
                   THEN [dayOfWeek |-> dayOfWeek, isAvailable |-> FALSE,
                         availableSlots |-> <<>>]
                   ELSE [dayOfWeek |-> dayOfWeek, isAvailable |-> TRUE,
                         availableSlots |->
                           MarkBooked(availability[dayAvailability].slots, bookedSlots)]
     IN req' = [req EXCEPT ![r] = Done(@, 200) @@ [data |-> data]]
  /\ UNCHANGED <<tz, role, doctors, appts, files, now, nreq, nextId, nextUrl>>

\* an awaited call rejects (a database error, or the cast of an Invalid Date
\* in the appointment query): catch (error) { res.status(500) }
getDoctorAvailability_throw(r) ==
  /\ req[r].op = "getDoctorAvailability"
  /\ req[r].pc \in {"v_findById", "v_find"}
  /\ Respond(r, 500)
  /\ UNCHANGED <<tz, role, doctors, appts, files, now, nreq, nextId, nextUrl>>

getDoctorAvailability(r) ==
  \/ getDoctorAvailability_start(r)
  \/ getDoctorAvailability_findById(r)
  \/ getDoctorAvailability_find(r)
  \/ getDoctorAvailability_throw(r)

\* the request arrives with req.body.availability, an array or not
updateAvailability_start(r) ==
  /\ \E u \in {"u1", "u2"}, isArray \in BOOLEAN, availability \in Availabilities :
       /\ ~isArray => availability = <<>>
       /\ Arrive(r, Request([op |-> "updateAvailability", pc |-> "w_findOne",
                             user |-> u, isArray |-> isArray,
                             availability |-> availability, doctor |-> NoDoctor]),
                 MaxAvailReq)
  /\ UNCHANGED <<tz, role, doctors, appts, files, now, nextId, nextUrl>>

\* const doctor = await Doctor.findOne({ user: userId }); 404 without one, 400
\* unless Array.isArray(availability); doctor.availability = availability
updateAvailability_findOne(r) ==
  /\ At(r, "updateAvailability", "w_findOne")
  /\ IF DoctorsOfUser(req[r].user) = {}
       THEN Respond(r, 404)
       ELSE IF ~req[r].isArray
         THEN Respond(r, 400)
         ELSE \E doctor \in DoctorsOfUser(req[r].user) :
                req' = [req EXCEPT ![r].doctor = doctor, ![r].pc = "w_save"]
  /\ UNCHANGED <<tz, role, doctors, appts, files, now, nreq, nextId, nextUrl>>

\* await doctor.save() resolves: the array replaces the stored one
updateAvailability_save(r) ==
  /\ At(r, "updateAvailability", "w_save")
  /\ \E d \in doctors :
       /\ d.id = req[r].doctor.id
       /\ doctors' = (doctors \ {d}) \cup
                       {[d EXCEPT !.availability = req[r].availability]}
  /\ req' = [req EXCEPT ![r] = Done([@ EXCEPT !.eff = {"availabilitySet"}], 200)]
  /\ UNCHANGED <<tz, role, appts, files, now, nreq, nextId, nextUrl>>

\* an awaited call rejects: catch (error) { res.status(500) }
updateAvailability_throw(r) ==
  /\ req[r].op = "updateAvailability"
  /\ req[r].pc \in {"w_findOne", "w_save"}
  /\ Respond(r, 500)
  /\ UNCHANGED <<tz, role, doctors, appts, files, now, nreq, nextId, nextUrl>>

updateAvailability(r) ==
  \/ updateAvailability_start(r)
  \/ updateAvailability_findOne(r)
  \/ updateAvailability_save(r)
  \/ updateAvailability_throw(r)

\* Doctor 1 of user u1, verified or not, without availability or with Monday
\* closed; appointment
\* a1 of doctor 1 at an instant of Monday 8 (UTC) or at the midnight that ends
\* it, scheduled, cancelled or missed, a2 of doctor 2 at the same instant.
InitAvail ==
  /\ role = [u \in UserIds |-> CASE u = "u0" -> "none" [] u = "u1" -> "doctor"
                                  [] u = "u2" -> "user" [] u = "u3" -> "admin"]
  /\ \E availability \in {<<>>, <<[day |-> "Monday", isAvailable |-> FALSE,
                                   slots |-> <<[startTime |-> "09:00",
                                                endTime |-> "10:00"],
                                               [startTime |-> "10:00",
                                                endTime |-> "11:00"]>>]>>},
        isVerified \in BOOLEAN :
       doctors = {[NewDoctor(1, "u1", "r1", <<>>) EXCEPT
                     !.availability = availability, !.isVerified = isVerified]}
  /\ tz \in Offsets
  /\ \E t \in (7 * TicksPerDay)..(8 * TicksPerDay),
        s \in {"scheduled", "cancelled", "no-show"} :
       appts = [a \in ApptIds |->
                  IF a = "a1" THEN Appointment(1, "p1", s, t)
                              ELSE Appointment(2, "p2", "scheduled", t)]
  /\ files = {}
  /\ now = 0
  /\ req = [r \in Slots |-> Idle]
  /\ nreq = 0
  /\ nextId = 2
  /\ nextUrl = 1

NextAvail ==
  \E r \in Slots : getDoctorAvailability(r) \/ updateAvailability(r)

SpecAvail == InitAvail /\ [][NextAvail]_vars

(***************************************************************************)
(* Properties of getDoctorAvailability.                                    *)
(***************************************************************************)
\* the entry that answers for a weekday in an availability array is missing
\* or has isAvailable false
NotOffered(availability, weekday) ==
  LET entries == {i \in 1..Len(availability) : availability[i].day = weekday}
  IN \/ entries = {}
     \/ \E i \in entries : /\ \A j \in entries : i <= j
                           /\ ~availability[i].isAvailable

\* C10: when getDoctorAvailability is asked for a date and the doctor's
\* availability has no entry for that date's weekday, or the entry has
\* isAvailable false, the answer is 200 with isAvailable false and an empty
\* availableSlots list, whatever slots the entry holds and whatever
\* appointments exist.
C10_UnavailableDayHasNoSlots ==
  [][\A r \in Slots :
       (/\ getDoctorAvailability_find(r)
        /\ NotOffered(req[r].doctor.availability,
                      dayNames[getDay(req[r].date.t) + 1]))
       => /\ req'[r].pc = "done"
          /\ req'[r].resp = 200
          /\ req'[r].data.isAvailable = FALSE
          /\ req'[r].data.availableSlots = <<>>]_vars

\* a Monday was asked for while Monday's entry had isAvailable false and two
\* slots, one of them taken by a scheduled appointment that day
C10_Witness ==
  \E r \in Slots :
    /\ req[r].op = "getDoctorAvailability" /\ req[r].pc = "done"
    /\ req[r].resp = 200
    /\ "data" \in DOMAIN req[r]
    /\ req[r].data.dayOfWeek = "Monday"
    /\ req[r].data.isAvailable = FALSE
    /\ \E d \in doctors :
         /\ d.id = 1
         /\ Len(d.availability) = 1
         /\ d.availability[1].day = "Monday"
         /\ ~d.availability[1].isAvailable
         /\ Len(d.availability[1].slots) = 2
    /\ appts["a1"].status = "scheduled"
    /\ appts["a1"].appointmentDate = 7 * TicksPerDay

\* the start times of the doctor's appointments that fall on the server's
\* calendar day of instant t and are neither cancelled nor missed
TakenOnDay(doctorId, t) ==
  {appts[a].appointmentTime : a \in
     {a \in ApptIds : /\ appts[a].doctor = doctorId
                      /\ LocalDay(appts[a].appointmentDate) = LocalDay(t)
                      /\ appts[a].status \notin {"cancelled", "no-show"}}}

\* the entry of the weekday of instant t in an availability array
EntryOfDay(availability, t) ==
  availability[FindDay(availability, dayNames[getDay(t) + 1])]

\* on an available weekday every configured slot is returned, in order, and a
\* slot marked booked has an appointment at its start time on that day
C11_SlotsListedAndBookedOnlyIfTaken ==
  [][\A r \in Slots :
       (/\ getDoctorAvailability_find(r)
        /\ ~NotOffered(req[r].doctor.availability,
                       dayNames[getDay(req[r].date.t) + 1]))
       => LET slots == EntryOfDay(req[r].doctor.availability, req[r].date.t).slots
              availableSlots == req'[r].data.availableSlots
          IN /\ req'[r].resp = 200
             /\ req'[r].data.isAvailable
             /\ Len(availableSlots) = Len(slots)
             /\ \A i \in 1..Len(slots) :
                  /\ availableSlots[i].startTime = slots[i].startTime
                  /\ availableSlots[i].endTime = slots[i].endTime
                  /\ availableSlots[i].isBooked
                       => slots[i].startTime
                            \in TakenOnDay(req[r].doctorId, req[r].date.t)]_vars

\* C11: when getDoctorAvailability is asked for a date on an available
\* weekday, it returns every configured slot of that weekday, and a slot has
\* isBooked true if and only if the doctor has an appointment on that calendar
\* date, neither cancelled nor no-show, whose appointmentTime is the slot's
\* startTime.
C11_BookedIffTaken ==
  [][\A r \in Slots :
       (/\ getDoctorAvailability_find(r)
        /\ ~NotOffered(req[r].doctor.availability,
                       dayNames[getDay(req[r].date.t) + 1]))
       => LET slots == EntryOfDay(req[r].doctor.availability, req[r].date.t).slots
              availableSlots == req'[r].data.availableSlots
          IN /\ req'[r].resp = 200
             /\ req'[r].data.isAvailable
             /\ Len(availableSlots) = Len(slots)
             /\ \A i \in 1..Len(slots) :
                  /\ availableSlots[i].startTime = slots[i].startTime
                  /\ availableSlots[i].isBooked
                       <=> slots[i].startTime
                             \in TakenOnDay(req[r].doctorId, req[r].date.t)]_vars

(***************************************************************************)
(* The listings: getDoctors, getDoctorById, searchDoctors,                 *)
(* filterDoctorsBySpecialty, getDoctorAppointments and getDoctorPatients.  *)
(***************************************************************************)
MaxLimit == 2            \* largest page and limit a request asks for
MaxListReq == 1          \* listing requests received in one behaviour
DefaultLimit == 10       \* parseInt(req.query.limit) || 10

\* a numeric query parameter: an integer, or "absent" when it is missing or
\* not a number
QueryNumbers ==
  {[kind |-> "absent", n |-> 0]}
  \cup {[kind |-> "int", n |-> n] : n \in (0 - MaxLimit)..MaxLimit}

\* parseInt(q) || d: a missing or non-numeric parameter parses to NaN, and NaN
\* and 0 are replaced by the default
ParseIntOr(q, d) == IF q.kind = "int" /\ q.n # 0 THEN q.n ELSE d

\* Math.ceil(total / limit) for total >= 0 and limit # 0
MathCeil(total, limit) ==
  IF limit > 0 THEN (total + limit - 1) \div limit
               ELSE 0 - (total \div (0 - limit))

\* the orders in which a sort may return the documents of set S, key giving
\* the sort key of each: ties come in any order
SortedBy(S, key) ==
  {order \in [1..Cardinality(S) -> S] :
     /\ \A i, j \in 1..Cardinality(S) : i # j => order[i] # order[j]
     /\ \A i, j \in 1..Cardinality(S) : i < j => key[order[i]] >= key[order[j]]}

\* variant of the cursor below that ignores the limit
SkipOnly(sorted, skip, limit) ==
  SubSeq(sorted, skip + 1, Len(sorted))

\* cursor.skip(skip).limit(limit) over the sorted matches: a limit of 0 is no
\* limit, a negative limit returns its absolute value in a single batch
SkipLimit(sorted, skip, limit) ==
  LET n == IF limit < 0 THEN 0 - limit ELSE limit
      last == IF n = 0 \/ skip + n > Len(sorted) THEN Len(sorted) ELSE skip + n
  IN SubSeq(sorted, skip + 1, last)

\* { $regex: query, $options: 'i' } on the names and specialties of the model
Regex(text, query) == text = query

\* the names of the users
firstName == [u \in UserIds |-> CASE u = "u1" -> "ann" [] u = "u2" -> "bob"
                                  [] u = "u3" -> "ann" [] OTHER -> "eve"]

\* User.find({ $or: [firstName, lastName match], role: 'doctor' }).select('_id')
UsersNamed(query) ==
  {u \in UserIds : Regex(firstName[u], query) /\ role[u] = "doctor"}

\* the text parameters of the requests: "" stands for a missing one
Texts == {"", "ann", "cardio"}

\* getDoctors: filter = { isVerified: true }, with specialties and user added
\* when req.query.specialty and req.query.name are given
getDoctors_filter(q) ==
  {d \in doctors :
     /\ d.isVerified
     /\ q.specialty # "" => \E sp \in d.specialties : Regex(sp, q.specialty)
     /\ q.name # "" => d.user \in q.users}

\* searchDoctors: { $or: [{ user: { $in: userIds } }, { specialties }], isVerified: true }
searchDoctors_filter(q) ==
  {d \in doctors :
     /\ d.isVerified
     /\ \/ d.user \in q.users
        \/ \E sp \in d.specialties : Regex(sp, q.query)}

\* filterDoctorsBySpecialty: { specialties: { $regex: specialty }, isVerified: true }
filterDoctorsBySpecialty_filter(q) ==
  {d \in doctors :
     /\ d.isVerified
     /\ \E sp \in d.specialties : Regex(sp, q.specialty)}

\* the filter of the doctor listing q
DoctorFilter(q) ==
  CASE q.op = "getDoctors" -> getDoctors_filter(q)
    [] q.op = "searchDoctors" -> searchDoctors_filter(q)
    [] q.op = "filterDoctorsBySpecialty" -> filterDoctorsBySpecialty_filter(q)

\* .sort({ averageRating: -1 })
RatingKey(d) == d.averageRating.num

\* a listing request with its page, limit and skip
Listing(q) ==
  LET page == ParseIntOr(q.pageParam, 1)
      limit == ParseIntOr(q.limitParam, DefaultLimit)
  IN Request(q @@ [page |-> page, limit |-> limit, skip |-> (page - 1) * limit,
                   users |-> {}, data |-> <<>>])

\* res.status(200).json({ data, pagination: { total, page, limit, pages } })
Listed(q, total) ==
  Done(q, 200) @@
  [data |-> q.data, pageParam |-> q.pageParam, limitParam |-> q.limitParam,
   pagination |-> [total |-> total, page |-> q.page, limit |-> q.limit,
                   pages |-> MathCeil(total, q.limit)]]

\* the three doctor listings arrive; searchDoctors answers 400 without a
\* query, and so does filterDoctorsBySpecialty without a specialty
listDoctors_start(r) ==
  /\ \E op \in {"getDoctors", "searchDoctors", "filterDoctorsBySpecialty"},
        pageParam \in QueryNumbers, limitParam \in QueryNumbers,
        specialty \in {"", "cardio"}, name \in Texts :
       LET q == Listing([op |-> op, pc |-> "l_users", user |-> "u0",
                         pageParam |-> pageParam, limitParam |-> limitParam,
                         specialty |-> IF op = "searchDoctors" THEN "" ELSE specialty,
                         name |-> IF op = "getDoctors" THEN name ELSE "",
                         query |-> IF op = "searchDoctors" THEN name ELSE ""])
       IN /\ op = "filterDoctorsBySpecialty" => name = ""
          /\ op = "searchDoctors" => specialty = ""
          /\ op = "getDoctors" => name # "cardio"
          /\ Arrive(r, CASE op = "searchDoctors" /\ q.query = "" -> Done(q, 400)
                         [] op = "filterDoctorsBySpecialty" /\ q.specialty = ""
                              -> Done(q, 400)
                         [] op = "getDoctors" /\ q.name = ""
                              -> [q EXCEPT !.pc = "l_find"]
                         [] op = "filterDoctorsBySpecialty"
                              -> [q EXCEPT !.pc = "l_find"]
                         [] OTHER -> q,
                    MaxListReq)
  /\ UNCHANGED <<tz, role, doctors, appts, files, now, nextId, nextUrl>>

\* const users = await User.find({...}).select('_id')
listDoctors_users(r) ==
  /\ req[r].op \in {"getDoctors", "searchDoctors"}
  /\ req[r].pc = "l_users"
  /\ req' = [req EXCEPT ![r].users =
                          UsersNamed(IF req[r].op = "getDoctors" THEN req[r].name
                                                                 ELSE req[r].query),
                        ![r].pc = "l_find"]
  /\ UNCHANGED <<tz, role, doctors, appts, files, now, nreq, nextId, nextUrl>>

\* const doctors = await Doctor.find(filter).skip(skip).limit(limit)
\*   .sort({ averageRating: -1 }); the database refuses a negative skip
listDoctors_find(r) ==
  /\ req[r].op \in {"getDoctors", "searchDoctors", "filterDoctorsBySpecialty"}
  /\ req[r].pc = "l_find"
  /\ req[r].skip >= 0
  /\ \E sorted \in SortedBy(DoctorFilter(req[r]), [d \in DoctorFilter(req[r]) |-> RatingKey(d)]) :
       req' = [req EXCEPT ![r].data = SkipLimit(sorted, req[r].skip, req[r].limit),
                          ![r].pc = "l_count"]
  /\ UNCHANGED <<tz, role, doctors, appts, files, now, nreq, nextId, nextUrl>>

\* const total = await Doctor.countDocuments(filter); the 200 response
listDoctors_count(r) ==
  /\ req[r].op \in {"getDoctors", "searchDoctors", "filterDoctorsBySpecialty"}
  /\ req[r].pc = "l_count"
  /\ req' = [req EXCEPT ![r] = Listed(@, Cardinality(DoctorFilter(@)))]
  /\ UNCHANGED <<tz, role, doctors, appts, files, now, nreq, nextId, nextUrl>>

\* an awaited query rejects (a database error, a negative skip):
\* catch (error) { res.status(500) }
listDoctors_throw(r) ==
  /\ req[r].op \in {"getDoctors", "searchDoctors", "filterDoctorsBySpecialty"}
  /\ req[r].pc \in {"l_users", "l_find", "l_count"}
  /\ Respond(r, 500)
  /\ UNCHANGED <<tz, role, doctors, appts, files, now, nreq, nextId, nextUrl>>

listDoctors(r) ==
  \/ listDoctors_start(r)
  \/ listDoctors_users(r)
  \/ listDoctors_find(r)
  \/ listDoctors_count(r)
  \/ listDoctors_throw(r)

\* the request arrives
getDoctorById_start(r) ==
  /\ \E id \in DocIds :
       Arrive(r, Request([op |-> "getDoctorById", pc |-> "g_findById",
                          user |-> "u0", doctorId |-> id]), MaxListReq)
  /\ UNCHANGED <<tz, role, doctors, appts, files, now, nextId, nextUrl>>

\* const doctor = await Doctor.findById(req.params.id): 404 without one, 403
\* if (!doctor.isVerified), else 200 with the document
getDoctorById_findById(r) ==
  /\ At(r, "getDoctorById", "g_findById")
  /\ IF DoctorsById(req[r].doctorId) = {}
       THEN Respond(r, 404)
       ELSE \E doctor \in DoctorsById(req[r].doctorId) :
              IF ~doctor.isVerified
                THEN Respond(r, 403)
                ELSE req' = [req EXCEPT ![r] = Done(@, 200) @@ [data |-> <<doctor>>]]
  /\ UNCHANGED <<tz, role, doctors, appts, files, now, nreq, nextId, nextUrl>>

\* the query rejects: catch (error) { res.status(500) }
getDoctorById_throw(r) ==
  /\ At(r, "getDoctorById", "g_findById")
  /\ Respond(r, 500)
  /\ UNCHANGED <<tz, role, doctors, appts, files, now, nreq, nextId, nextUrl>>

getDoctorById(r) ==
  \/ getDoctorById_start(r)
  \/ getDoctorById_findById(r)
  \/ getDoctorById_throw(r)

\* req.query.startDate and req.query.endDate: both given or not
DateRanges ==
  {[given |-> FALSE, startDate |-> 0, endDate |-> 0]}
  \cup {[given |-> TRUE, startDate |-> 0, endDate |-> 0]}

\* getDoctorAppointments: filter = { doctor: doctor._id }, with status and
\* appointmentDate added when the query gives them
getDoctorAppointments_filter(q) ==
  {a \in ApptIds :
     /\ appts[a].doctor = q.doctor.id
     /\ q.status # "" => appts[a].status = q.status
     /\ q.range.given => /\ appts[a].appointmentDate >= q.range.startDate
                         /\ appts[a].appointmentDate <= q.range.endDate}

\* .sort({ appointmentDate: -1, appointmentTime: -1 })
AppointmentKey(a) ==
  (appts[a].appointmentDate * 24)
    + (IF appts[a].appointmentTime = "09:00" THEN 9 ELSE 10)

\* the request arrives
getDoctorAppointments_start(r) ==
  /\ \E u \in {"u1", "u2"}, pageParam \in QueryNumbers, limitParam \in QueryNumbers,
        status \in {"", "scheduled"}, range \in DateRanges :
       Arrive(r, Listing([op |-> "getDoctorAppointments", pc |-> "p_findOne",
                          user |-> u, pageParam |-> pageParam,
                          limitParam |-> limitParam, status |-> status,
                          range |-> range, doctor |-> NoDoctor]), MaxListReq)
  /\ UNCHANGED <<tz, role, doctors, appts, files, now, nextId, nextUrl>>

\* const doctor = await Doctor.findOne({ user: userId })
getDoctorAppointments_findOne(r) ==
  /\ At(r, "getDoctorAppointments", "p_findOne")
  /\ IF DoctorsOfUser(req[r].user) = {}
       THEN Respond(r, 404)
       ELSE \E doctor \in DoctorsOfUser(req[r].user) :
              req' = [req EXCEPT ![r].doctor = doctor, ![r].pc = "p_find"]
  /\ UNCHANGED <<tz, role, doctors, appts, files, now, nreq, nextId, nextUrl>>

\* const appointments = await Appointment.find(filter).sort(...).skip(skip).limit(limit)
getDoctorAppointments_find(r) ==
  /\ At(r, "getDoctorAppointments", "p_find")
  /\ req[r].skip >= 0
  /\ \E sorted \in SortedBy(getDoctorAppointments_filter(req[r]),
                          [a \in getDoctorAppointments_filter(req[r]) |-> AppointmentKey(a)]) :
       req' = [req EXCEPT ![r].data = SkipLimit(sorted, req[r].skip, req[r].limit),
                          ![r].pc = "p_count"]
  /\ UNCHANGED <<tz, role, doctors, appts, files, now, nreq, nextId, nextUrl>>

\* const total = await Appointment.countDocuments(filter); the 200 response
getDoctorAppointments_count(r) ==
  /\ At(r, "getDoctorAppointments", "p_count")
  /\ req' = [req EXCEPT ![r] =
               Listed(@, Cardinality(getDoctorAppointments_filter(@)))]
  /\ UNCHANGED <<tz, role, doctors, appts, files, now, nreq, nextId, nextUrl>>

\* an awaited query rejects: catch (error) { res.status(500) }
getDoctorAppointments_throw(r) ==
  /\ req[r].op = "getDoctorAppointments"
  /\ req[r].pc \in {"p_findOne", "p_find", "p_count"}
  /\ Respond(r, 500)
  /\ UNCHANGED <<tz, role, doctors, appts, files, now, nreq, nextId, nextUrl>>

getDoctorAppointments(r) ==
  \/ getDoctorAppointments_start(r)
  \/ getDoctorAppointments_findOne(r)
  \/ getDoctorAppointments_find(r)
  \/ getDoctorAppointments_count(r)
  \/ getDoctorAppointments_throw(r)

\* the user a Patient profile belongs to
UserOfPatient(patient) == CHOOSE u \in UserIds : PatientOf(u) = patient

\* Appointment.distinct('patient', { doctor: doctor._id })
PatientsOfDoctor(doctorId) ==
  {appts[a].patient : a \in {a \in ApptIds : appts[a].doctor = doctorId}}

\* patients.filter(p => `${firstName} ${lastName}`.toLowerCase().includes(search))
PatientsNamed(patientIds, search) ==
  {p \in patientIds : firstName[UserOfPatient(p)] = search}

\* a sort that orders nothing: the documents come in any order
NoKey(p) == 0

\* Appointment.countDocuments({ doctor, patient }) for each patient of the page
PatientsWithStats(patients, doctorId) ==
  [i \in 1..Len(patients) |->
     [patient |-> patients[i],
      appointmentCount |->
        Cardinality({a \in ApptIds : /\ appts[a].doctor = doctorId
                                     /\ appts[a].patient = patients[i]})]]

\* the request arrives
getDoctorPatients_start(r) ==
  /\ \E u \in {"u1", "u2"}, pageParam \in QueryNumbers, limitParam \in QueryNumbers,
        search \in {"", "ann"} :
       Arrive(r, Listing([op |-> "getDoctorPatients", pc |-> "q_findOne",
                          user |-> u, pageParam |-> pageParam,
                          limitParam |-> limitParam, search |-> search,
                          doctor |-> NoDoctor, filteredPatientIds |-> {}]),
              MaxListReq)
  /\ UNCHANGED <<tz, role, doctors, appts, files, now, nextId, nextUrl>>

\* const doctor = await Doctor.findOne({ user: userId })
getDoctorPatients_findOne(r) ==
  /\ At(r, "getDoctorPatients", "q_findOne")
  /\ IF DoctorsOfUser(req[r].user) = {}
       THEN Respond(r, 404)
       ELSE \E doctor \in DoctorsOfUser(req[r].user) :
              req' = [req EXCEPT ![r].doctor = doctor, ![r].pc = "q_distinct"]
  /\ UNCHANGED <<tz, role, doctors, appts, files, now, nreq, nextId, nextUrl>>

\* const patientIds = await Appointment.distinct(...)
getDoctorPatients_distinct(r) ==
  /\ At(r, "getDoctorPatients", "q_distinct")
  /\ req' = [req EXCEPT ![r].filteredPatientIds = PatientsOfDoctor(req[r].doctor.id),
                        ![r].pc = IF req[r].search = "" THEN "q_find" ELSE "q_search"]
  /\ UNCHANGED <<tz, role, doctors, appts, files, now, nreq, nextId, nextUrl>>

\* if (req.query.search): await Patient.find({ _id: { $in: patientIds } }),
\* filtered by name
getDoctorPatients_search(r) ==
  /\ At(r, "getDoctorPatients", "q_search")
  /\ req' = [req EXCEPT ![r].filteredPatientIds = PatientsNamed(@, req[r].search),
                        ![r].pc = "q_find"]
  /\ UNCHANGED <<tz, role, doctors, appts, files, now, nreq, nextId, nextUrl>>

\* const patients = await Patient.find({ _id: { $in: filteredPatientIds } })
\*   .skip(skip).limit(limit)
getDoctorPatients_find(r) ==
  /\ At(r, "getDoctorPatients", "q_find")
  /\ req[r].skip >= 0
  /\ \E sorted \in SortedBy(req[r].filteredPatientIds, [p \in req[r].filteredPatientIds |-> NoKey(p)]) :
       req' = [req EXCEPT ![r].data = SkipLimit(sorted, req[r].skip, req[r].limit),
                          ![r].pc = "q_stats"]
  /\ UNCHANGED <<tz, role, doctors, appts, files, now, nreq, nextId, nextUrl>>

\* await Promise.all(patients.map(...)); total = filteredPatientIds.length;
\* the 200 response
getDoctorPatients_stats(r) ==
  /\ At(r, "getDoctorPatients", "q_stats")
  /\ req' = [req EXCEPT ![r] =
               Listed([@ EXCEPT !.data = PatientsWithStats(@, req[r].doctor.id)],
                      Cardinality(req[r].filteredPatientIds))]
  /\ UNCHANGED <<tz, role, doctors, appts, files, now, nreq, nextId, nextUrl>>

\* an awaited query rejects: catch (error) { res.status(500) }
getDoctorPatients_throw(r) ==
  /\ req[r].op = "getDoctorPatients"
  /\ req[r].pc \in {"q_findOne", "q_distinct", "q_search", "q_find", "q_stats"}
  /\ Respond(r, 500)
  /\ UNCHANGED <<tz, role, doctors, appts, files, now, nreq, nextId, nextUrl>>

getDoctorPatients(r) ==
  \/ getDoctorPatients_start(r)
  \/ getDoctorPatients_findOne(r)
  \/ getDoctorPatients_distinct(r)
  \/ getDoctorPatients_search(r)
  \/ getDoctorPatients_find(r)
  \/ getDoctorPatients_stats(r)
  \/ getDoctorPatients_throw(r)

\* Three doctors, the first two verified or not: doctors 1 and 3 are
\* cardiologists, doctor 2 is not; doctors 1 and 2 are rated alike.  Both
\* appointments are doctor 1's, of one patient or of two.
InitList ==
  /\ role = [u \in UserIds |-> IF u = "u0" THEN "none" ELSE "doctor"]
  /\ \E v1, v2 \in BOOLEAN :
       doctors =
         {[NewDoctor(1, "u1", "r1", <<>>) EXCEPT
             !.isVerified = v1, !.specialties = {"cardio"},
             !.averageRating = [num |-> 4, den |-> 1]],
          [NewDoctor(2, "u2", "r2", <<>>) EXCEPT
             !.isVerified = v2, !.specialties = {"derma"},
             !.averageRating = [num |-> 4, den |-> 1]],
          [NewDoctor(3, "u3", "r3", <<>>) EXCEPT
             !.isVerified = TRUE, !.specialties = {"cardio", "derma"},
             !.averageRating = [num |-> 2, den |-> 1]]}
  /\ \E patient \in {"p1", "p2"} :
       appts = [a \in ApptIds |->
                  IF a = "a1" THEN Appointment(1, "p1", "completed", 0)
                              ELSE Appointment(1, patient, "scheduled", 1)]
  /\ files = {}
  /\ now = 0
  /\ tz = 0
  /\ req = [r \in Slots |-> Idle]
  /\ nreq = 0
  /\ nextId = 4
  /\ nextUrl = 1

NextList ==
  \E r \in Slots : \/ listDoctors(r)
                   \/ getDoctorById(r)
                   \/ getDoctorAppointments(r)
                   \/ getDoctorPatients(r)

SpecList == InitList /\ [][NextList]_vars

(***************************************************************************)
(* Properties of the listings.                                             *)
(***************************************************************************)
\* slot r sends the 200 response of a paginated listing
ListingAnswers(r) ==
  \/ listDoctors_count(r)
  \/ getDoctorAppointments_count(r)
  \/ getDoctorPatients_stats(r)

\* the number of records that match the filter of listing q
Matching(q) ==
  CASE q.op = "getDoctorAppointments" -> Cardinality(getDoctorAppointments_filter(q))
    [] q.op = "getDoctorPatients" -> Cardinality(q.filteredPatientIds)
    [] OTHER -> Cardinality(DoctorFilter(q))

\* k is the ceiling of total / l
IsCeiling(k, total, l) ==
  IF l > 0 THEN k * l >= total /\ (k - 1) * l < total
           ELSE k * l <= total /\ (k - 1) * l > total

\* a listing asked for with a page and a limit of at least 1 returns at most
\* limit records, the records that follow the first (page - 1) * limit ones,
\* and reports pages = ceil(total / limit)
C12_PositivePageAndLimit ==
  [][\A r \in Slots :
       (/\ ListingAnswers(r)
        /\ req[r].limitParam.kind = "int" /\ req[r].limitParam.n >= 1
        /\ req[r].pageParam.kind = "int" /\ req[r].pageParam.n >= 1)
       => /\ req'[r].resp = 200
          /\ Len(req'[r].data) <= req[r].limitParam.n
          /\ req'[r].pagination.total = Matching(req[r])
          /\ IsCeiling(req'[r].pagination.pages, Matching(req[r]),
                       req[r].limitParam.n)]_vars

\* C12: every paginated listing (getDoctors, searchDoctors,
\* filterDoctorsBySpecialty, getDoctorAppointments, getDoctorPatients), for
\* every requested page and every requested limit l, returns at most l records
\* and pagination.pages = ceil(total / l), total being the number of records
\* that match the filter.
C12_Pagination ==
  [][\A r \in Slots :
       (/\ ListingAnswers(r)
        /\ req[r].limitParam.kind = "int")
       => /\ req'[r].resp = 200
          /\ Len(req'[r].data) <= req[r].limitParam.n
          /\ req'[r].pagination.total = Matching(req[r])
          /\ req[r].limitParam.n # 0
               => IsCeiling(req'[r].pagination.pages, Matching(req[r]),
                            req[r].limitParam.n)]_vars

(***************************************************************************)
(* Properties of the public handlers.                                      *)
(***************************************************************************)
\* the listings return verified doctors only, and getDoctorById refuses an
\* unverified doctor with 403
C16_ListingsAndLookupOnlyVerified ==
  [][\A r \in Slots :
       /\ listDoctors_count(r)
            => \A i \in 1..Len(req'[r].data) : req'[r].data[i].isVerified
       /\ getDoctorById_findById(r)
            => \A d \in DoctorsById(req[r].doctorId) :
                 IF d.isVerified THEN req'[r].resp = 200 ELSE req'[r].resp = 403]_vars

\* C16: no handler with Public access (getDoctors, getDoctorById,
\* getDoctorAvailability, searchDoctors, filterDoctorsBySpecialty) returns
\* data of a doctor whose isVerified is false: a listing holds verified
\* doctors only and a request that addresses an unverified doctor by id is
\* not answered 200.
C16_PublicOnlyVerified ==
  [][\A r \in Slots :
       /\ listDoctors_count(r)
            => \A i \in 1..Len(req'[r].data) : req'[r].data[i].isVerified
       /\ ((getDoctorById_findById(r) \/ getDoctorAvailability_findById(r)
              \/ getDoctorAvailability_find(r))
           /\ req'[r].resp = 200)
            => \A d \in DoctorsById(req[r].doctorId) : d.isVerified]_vars

(***************************************************************************)
(* The handlers that edit a profile and save it: updateDoctor,             *)
(* updateDoctorProfile, updateDoctorAvailability,                          *)
(* uploadVerificationDocuments, verifyDoctor and rejectDoctor.             *)
(*                                                                         *)
(* Each reads the document, edits its copy and calls doctor.save(), which  *)
(* sends the paths whose value changed: a $set for a field, a $set of      *)
(* position i for an edited array element (refused unless the stored       *)
(* version is the one read), a $push for appended elements (which          *)
(* increments the version).                                                *)
(***************************************************************************)
MaxProfileReq == 2       \* profile requests received in one behaviour

\* the values a request body may give a field, by the field's type
ValuesOf(f) ==
  CASE f \in {"experience", "consultationFee"} -> {"0", "5"}
    [] f = "bio" -> {"''", "'text'"}
    [] f = "clinicDetails" -> {"{}"}
    [] f \in {"videoConsultation", "acceptingNewPatients"} -> {"false", "true"}
    [] OTHER -> {"[]", "['x']"}

\* a body that gives no field
EmptyBody == [f \in UpdatableFields |-> "undefined"]

\* the request bodies: no field, or one field with a value of its type
Bodies ==
  {EmptyBody}
  \cup UNION {{[EmptyBody EXCEPT ![f] = v] : v \in ValuesOf(f)} :
              f \in UpdatableFields}

\* if (value): undefined, 0, '' and false do not pass
Truthy(value) == value \notin {"undefined", "0", "''", "false"}

\* the guard in front of the assignment of field f: if (f) for the first
\* eight fields, if (f !== undefined) for videoConsultation and
\* acceptingNewPatients
Assigned(f, value) ==
  IF f \in {"videoConsultation", "acceptingNewPatients"}
    THEN value # "undefined"
    ELSE Truthy(value)

\* the document after the assignments of the body's fields
AssignFields(doctor, body) ==
  [doctor EXCEPT !.profile =
     [f \in UpdatableFields |-> IF Assigned(f, body[f]) THEN body[f] ELSE @[f]]]

\* req.body.availability: missing, or an array
AvailabilityParams ==
  {[given |-> FALSE, value |-> <<>>],
   [given |-> TRUE, value |-> <<[day |-> "Monday", isAvailable |-> TRUE,
                                 slots |-> <<>>]>>]}

\* the positions of the array read whose element the handler edited
EditedDocuments(q) ==
  {i \in 1..Len(q.orig.verificationDocuments) :
     q.doctor.verificationDocuments[i] # q.orig.verificationDocuments[i]}

\* the elements the handler pushed
PushedDocuments(q) ==
  SubSeq(q.doctor.verificationDocuments, Len(q.orig.verificationDocuments) + 1,
         Len(q.doctor.verificationDocuments))

\* whether doctor.save() of request q matches the stored document d: the _id,
\* and the version read when an array element was edited or an array replaced
SaveFinds(q, d) ==
  /\ d.id = q.orig.id
  /\ (EditedDocuments(q) # {} \/ q.doctor.availability # q.orig.availability)
       => d.v = q.orig.v

\* the stored document d after doctor.save() of request q
Save(q, d) ==
  [d EXCEPT
     !.profile = [f \in UpdatableFields |->
                    IF q.doctor.profile[f] # q.orig.profile[f]
                      THEN q.doctor.profile[f] ELSE @[f]],
     !.isVerified = IF q.doctor.isVerified # q.orig.isVerified
                      THEN q.doctor.isVerified ELSE @,
     !.rejectionReason = IF q.doctor.rejectionReason # q.orig.rejectionReason
                           THEN q.doctor.rejectionReason ELSE @,
     !.verificationStatus = IF q.doctor.verificationStatus # q.orig.verificationStatus
                              THEN q.doctor.verificationStatus ELSE @,
     !.availability = IF q.doctor.availability # q.orig.availability
                        THEN q.doctor.availability ELSE @,
     !.verificationDocuments =
        [i \in 1..Len(@) |-> IF i \in EditedDocuments(q)
                               THEN q.doctor.verificationDocuments[i] ELSE @[i]]
        \o PushedDocuments(q),
     !.v = IF PushedDocuments(q) # <<>>
              \/ q.doctor.availability # q.orig.availability
             THEN @ + 1 ELSE @]

\* await doctor.save() of slot r resolves and the handler answers code
SaveAndRespond(r, code) ==
  /\ \E d \in doctors :
       /\ SaveFinds(req[r], d)
       /\ doctors' = (doctors \ {d}) \cup {Save(req[r], d)}
  /\ req' = [req EXCEPT ![r] =
               Done([@ EXCEPT !.eff = @ \cup {"doctorSave"}], code)]

\* the handler of slot r has read the document and edited its copy
Edit(r, orig, doctor, pc) ==
  req' = [req EXCEPT ![r].orig = orig, ![r].doctor = doctor, ![r].pc = pc]

\* if (doctor.isVerified) doctor.isVerified = false, of updateDoctor
Unverify(doctor) ==
  IF doctor.isVerified THEN [doctor EXCEPT !.isVerified = FALSE] ELSE doctor

\* if (doctor.isVerified) { doctor.isVerified = false;
\* doctor.verificationStatus = 'pending' }, of uploadVerificationDocuments
BackToPending(doctor) ==
  IF doctor.isVerified
    THEN [doctor EXCEPT !.isVerified = FALSE, !.verificationStatus = "pending"]
    ELSE doctor

\* const uploadedFile = await uploadFile(file, ...) resolves for file i of
\* slot r and the document is pushed; after the last file the handler's
\* reset of isVerified runs, with the status set to pending or without
UploadAndPush(r, pending, savePc) ==
  LET pushed == [req[r].doctor EXCEPT
                   !.verificationDocuments = Append(@, NewDocument(nextUrl))]
      last == req[r].i = req[r].files
  IN /\ files' = files \cup {nextUrl}
     /\ nextUrl' = nextUrl + 1
     /\ req' = [req EXCEPT
          ![r].doctor = IF ~last THEN pushed
                        ELSE IF pending THEN BackToPending(pushed)
                        ELSE Unverify(pushed),
          ![r].i = @ + 1,
          ![r].eff = @ \cup {"fileUpload"},
          ![r].pc = IF last THEN savePc ELSE @]

\* what a request of updateDoctor carries: one field, or an availability,
\* or files
Payloads ==
  {[body |-> body, availability |-> availability, files |-> n] :
     body \in Bodies, availability \in AvailabilityParams, n \in 0..MaxFiles}

OneThing(p) ==
  \/ ~p.availability.given /\ p.files = 0
  \/ p.body = EmptyBody /\ (~p.availability.given \/ p.files = 0)

\* variant: any authenticated user may update a profile
AnyUser(q, doctor) == q.authRole # "none"

\* updateDoctor: the requester is the owner or an admin
updateDoctor_authorized(q, doctor) ==
  doctor.user = q.user \/ q.authRole = "admin"

\* the request arrives
updateDoctor_start(r) ==
  /\ \E u \in {"u1", "u2", "u3"}, id \in {1, 2}, p \in {p \in Payloads : OneThing(p)} :
       Arrive(r, Request([op |-> "updateDoctor", pc |-> "u_findById", user |-> u,
                          doctorId |-> id, body |-> p.body,
                          availability |-> p.availability, files |-> p.files,
                          i |-> 1, orig |-> NoDoctor, doctor |-> NoDoctor]),
              MaxProfileReq)
  /\ UNCHANGED <<tz, role, doctors, appts, files, now, nextId, nextUrl>>

\* const doctor = await Doctor.findById(doctorId): 404 without one, 403 for a
\* requester who is neither owner nor admin, else the assignments
updateDoctor_findById(r) ==
  /\ At(r, "updateDoctor", "u_findById")
  /\ IF DoctorsById(req[r].doctorId) = {}
       THEN Respond(r, 404)
       ELSE \E doctor \in DoctorsById(req[r].doctorId) :
              IF ~updateDoctor_authorized(req[r], doctor)
                THEN Respond(r, 403)
                ELSE Edit(r, doctor,
                          [AssignFields(doctor, req[r].body) EXCEPT
                             !.availability = IF req[r].availability.given
                                                THEN req[r].availability.value
                                                ELSE @],
                          IF req[r].files > 0 THEN "u_upload" ELSE "u_save")
  /\ UNCHANGED <<tz, role, doctors, appts, files, now, nreq, nextId, nextUrl>>

\* the loop over req.files
updateDoctor_upload(r) ==
  /\ At(r, "updateDoctor", "u_upload")
  /\ UploadAndPush(r, FALSE, "u_save")
  /\ UNCHANGED <<tz, role, doctors, appts, now, nreq, nextId>>

\* await doctor.save(); res.status(200)
updateDoctor_save(r) ==
  /\ At(r, "updateDoctor", "u_save")
  /\ SaveAndRespond(r, 200)
  /\ UNCHANGED <<tz, role, appts, files, now, nreq, nextId, nextUrl>>

\* an awaited call rejects: catch (error) { res.status(500) }
updateDoctor_throw(r) ==
  /\ req[r].op = "updateDoctor"
  /\ req[r].pc \in {"u_findById", "u_upload", "u_save"}
  /\ Respond(r, 500)
  /\ UNCHANGED <<tz, role, doctors, appts, files, now, nreq, nextId, nextUrl>>

updateDoctor(r) ==
  \/ updateDoctor_start(r)
  \/ updateDoctor_findById(r)
  \/ updateDoctor_upload(r)
  \/ updateDoctor_save(r)
  \/ updateDoctor_throw(r)

\* the request arrives
updateDoctorProfile_start(r) ==
  /\ \E u \in {"u1", "u2"}, body \in Bodies :
       Arrive(r, Request([op |-> "updateDoctorProfile", pc |-> "f_findOne",
                          user |-> u, body |-> body,
                          orig |-> NoDoctor, doctor |-> NoDoctor]), MaxProfileReq)
  /\ UNCHANGED <<tz, role, doctors, appts, files, now, nextId, nextUrl>>

\* const doctor = await Doctor.findOne({ user: userId }): 404 without one,
\* else the assignments
updateDoctorProfile_findOne(r) ==
  /\ At(r, "updateDoctorProfile", "f_findOne")
  /\ IF DoctorsOfUser(req[r].user) = {}
       THEN Respond(r, 404)
       ELSE \E doctor \in DoctorsOfUser(req[r].user) :
              Edit(r, doctor, AssignFields(doctor, req[r].body), "f_save")
  /\ UNCHANGED <<tz, role, doctors, appts, files, now, nreq, nextId, nextUrl>>

\* await doctor.save(); res.status(200)
updateDoctorProfile_save(r) ==
  /\ At(r, "updateDoctorProfile", "f_save")
  /\ SaveAndRespond(r, 200)
  /\ UNCHANGED <<tz, role, appts, files, now, nreq, nextId, nextUrl>>

\* an awaited call rejects: catch (error) { res.status(500) }
updateDoctorProfile_throw(r) ==
  /\ req[r].op = "updateDoctorProfile"
  /\ req[r].pc \in {"f_findOne", "f_save"}
  /\ Respond(r, 500)
  /\ UNCHANGED <<tz, role, doctors, appts, files, now, nreq, nextId, nextUrl>>

updateDoctorProfile(r) ==
  \/ updateDoctorProfile_start(r)
  \/ updateDoctorProfile_findOne(r)
  \/ updateDoctorProfile_save(r)
  \/ updateDoctorProfile_throw(r)

(***************************************************************************)
(* verifyDoctor, PUT /api/doctors/:id/verify                               *)
(***************************************************************************)
verifyDoctor_start(r) ==
  /\ \E u \in {"u1", "u3"}, id \in {1, 2} :
       Arrive(r, Request([op |-> "verifyDoctor", pc |-> "k_auth", user |-> u,
                          doctorId |-> id, orig |-> NoDoctor, doctor |-> NoDoctor]),
              MaxProfileReq)
  /\ UNCHANGED <<tz, role, doctors, appts, files, now, nextId, nextUrl>>

\* if (req.user.role !== 'admin') return 403
verifyDoctor_auth(r) ==
  /\ At(r, "verifyDoctor", "k_auth")
  /\ IF req[r].authRole # "admin"
       THEN Respond(r, 403)
       ELSE req' = [req EXCEPT ![r].pc = "k_findById"]
  /\ UNCHANGED <<tz, role, doctors, appts, files, now, nreq, nextId, nextUrl>>

\* doctor.verificationDocuments.forEach(doc => { doc.verified = true })
AllVerified(documents) ==
  [i \in 1..Len(documents) |-> [documents[i] EXCEPT !.verified = TRUE]]

\* const doctor = await Doctor.findById(doctorId): 404 without one, else
\* isVerified = true and every document verified
verifyDoctor_findById(r) ==
  /\ At(r, "verifyDoctor", "k_findById")
  /\ IF DoctorsById(req[r].doctorId) = {}
       THEN Respond(r, 404)
       ELSE \E doctor \in DoctorsById(req[r].doctorId) :
              Edit(r, doctor,
                   [doctor EXCEPT !.isVerified = TRUE,
                                  !.verificationDocuments = AllVerified(@)],
                   "k_save")
  /\ UNCHANGED <<tz, role, doctors, appts, files, now, nreq, nextId, nextUrl>>

\* await doctor.save(); res.status(200)
verifyDoctor_save(r) ==
  /\ At(r, "verifyDoctor", "k_save")
  /\ SaveAndRespond(r, 200)
  /\ UNCHANGED <<tz, role, appts, files, now, nreq, nextId, nextUrl>>

\* an awaited call rejects: catch (error) { res.status(500) }
verifyDoctor_throw(r) ==
  /\ req[r].op = "verifyDoctor"
  /\ req[r].pc \in {"k_findById", "k_save"}
  /\ Respond(r, 500)
  /\ UNCHANGED <<tz, role, doctors, appts, files, now, nreq, nextId, nextUrl>>

verifyDoctor(r) ==
  \/ verifyDoctor_start(r)
  \/ verifyDoctor_auth(r)
  \/ verifyDoctor_findById(r)
  \/ verifyDoctor_save(r)
  \/ verifyDoctor_throw(r)

(***************************************************************************)
(* rejectDoctor, PUT /api/doctors/:id/reject                               *)
(***************************************************************************)
rejectDoctor_start(r) ==
  /\ \E u \in {"u1", "u3"}, id \in {1, 2}, reason \in {"", "incomplete"} :
       Arrive(r, Request([op |-> "rejectDoctor", pc |-> "j_auth", user |-> u,
                          doctorId |-> id, reason |-> reason,
                          orig |-> NoDoctor, doctor |-> NoDoctor]),
              MaxProfileReq)
  /\ UNCHANGED <<tz, role, doctors, appts, files, now, nextId, nextUrl>>

\* if (req.user.role !== 'admin') return 403
rejectDoctor_auth(r) ==
  /\ At(r, "rejectDoctor", "j_auth")
  /\ IF req[r].authRole # "admin"
       THEN Respond(r, 403)
       ELSE req' = [req EXCEPT ![r].pc = "j_findById"]
  /\ UNCHANGED <<tz, role, doctors, appts, files, now, nreq, nextId, nextUrl>>

\* const doctor = await Doctor.findById(doctorId): 404 without one, else
\* isVerified = false and rejectionReason = reason || '...'
rejectDoctor_findById(r) ==
  /\ At(r, "rejectDoctor", "j_findById")
  /\ IF DoctorsById(req[r].doctorId) = {}
       THEN Respond(r, 404)
       ELSE \E doctor \in DoctorsById(req[r].doctorId) :
              Edit(r, doctor,
                   [doctor EXCEPT
                      !.isVerified = FALSE,
                      !.rejectionReason =
                         IF req[r].reason # "" THEN req[r].reason
                         ELSE "Did not meet verification criteria"],
                   "j_save")
  /\ UNCHANGED <<tz, role, doctors, appts, files, now, nreq, nextId, nextUrl>>

\* await doctor.save(); res.status(200)
rejectDoctor_save(r) ==
  /\ At(r, "rejectDoctor", "j_save")
  /\ SaveAndRespond(r, 200)
  /\ UNCHANGED <<tz, role, appts, files, now, nreq, nextId, nextUrl>>

\* an awaited call rejects: catch (error) { res.status(500) }
rejectDoctor_throw(r) ==
  /\ req[r].op = "rejectDoctor"
  /\ req[r].pc \in {"j_findById", "j_save"}
  /\ Respond(r, 500)
  /\ UNCHANGED <<tz, role, doctors, appts, files, now, nreq, nextId, nextUrl>>

rejectDoctor(r) ==
  \/ rejectDoctor_start(r)
  \/ rejectDoctor_auth(r)
  \/ rejectDoctor_findById(r)
  \/ rejectDoctor_save(r)
  \/ rejectDoctor_throw(r)

(***************************************************************************)
(* updateDoctorAvailability, PUT /api/doctors/:id/availability             *)
(***************************************************************************)
updateDoctorAvailability_start(r) ==
  /\ \E u \in {"u1", "u2", "u3"}, id \in {1, 2}, availability \in AvailabilityParams :
       Arrive(r, Request([op |-> "updateDoctorAvailability", pc |-> "y_findById",
                          user |-> u, doctorId |-> id, availability |-> availability,
                          orig |-> NoDoctor, doctor |-> NoDoctor]),
              MaxProfileReq)
  /\ UNCHANGED <<tz, role, doctors, appts, files, now, nextId, nextUrl>>

\* const doctor = await Doctor.findById(doctorId): 404 without one, 403 for a
\* requester who is not the owner, 400 unless availability is an array
updateDoctorAvailability_findById(r) ==
  /\ At(r, "updateDoctorAvailability", "y_findById")
  /\ IF DoctorsById(req[r].doctorId) = {}
       THEN Respond(r, 404)
       ELSE \E doctor \in DoctorsById(req[r].doctorId) :
              IF doctor.user # req[r].user THEN Respond(r, 403)
              ELSE IF ~req[r].availability.given THEN Respond(r, 400)
              ELSE Edit(r, doctor,
                        [doctor EXCEPT !.availability = req[r].availability.value],
                        "y_save")
  /\ UNCHANGED <<tz, role, doctors, appts, files, now, nreq, nextId, nextUrl>>

\* await doctor.save(); res.status(200)
updateDoctorAvailability_save(r) ==
  /\ At(r, "updateDoctorAvailability", "y_save")
  /\ SaveAndRespond(r, 200)
  /\ UNCHANGED <<tz, role, appts, files, now, nreq, nextId, nextUrl>>

\* an awaited call rejects: catch (error) { res.status(500) }
updateDoctorAvailability_throw(r) ==
  /\ req[r].op = "updateDoctorAvailability"
  /\ req[r].pc \in {"y_findById", "y_save"}
  /\ Respond(r, 500)
  /\ UNCHANGED <<tz, role, doctors, appts, files, now, nreq, nextId, nextUrl>>

updateDoctorAvailability(r) ==
  \/ updateDoctorAvailability_start(r)
  \/ updateDoctorAvailability_findById(r)
  \/ updateDoctorAvailability_save(r)
  \/ updateDoctorAvailability_throw(r)

(***************************************************************************)
(* uploadVerificationDocuments, POST /api/doctors/verification-documents   *)
(***************************************************************************)
uploadVerificationDocuments_start(r) ==
  /\ \E u \in {"u1", "u2"}, n \in 0..MaxFiles :
       Arrive(r, Request([op |-> "uploadVerificationDocuments", pc |-> "w_findOne",
                          user |-> u, files |-> n, i |-> 1,
                          orig |-> NoDoctor, doctor |-> NoDoctor]),
              MaxProfileReq)
  /\ UNCHANGED <<tz, role, doctors, appts, files, now, nextId, nextUrl>>

\* const doctor = await Doctor.findOne({ user: userId }): 404 without one,
\* 400 without files
uploadVerificationDocuments_findOne(r) ==
  /\ At(r, "uploadVerificationDocuments", "w_findOne")
  /\ IF DoctorsOfUser(req[r].user) = {}
       THEN Respond(r, 404)
       ELSE IF req[r].files = 0 THEN Respond(r, 400)
       ELSE \E doctor \in DoctorsOfUser(req[r].user) :
              Edit(r, doctor, doctor, "w_upload")
  /\ UNCHANGED <<tz, role, doctors, appts, files, now, nreq, nextId, nextUrl>>

\* the loop over req.files
uploadVerificationDocuments_upload(r) ==
  /\ At(r, "uploadVerificationDocuments", "w_upload")
  /\ UploadAndPush(r, TRUE, "w_save")
  /\ UNCHANGED <<tz, role, doctors, appts, now, nreq, nextId>>

\* await doctor.save(); res.status(200)
uploadVerificationDocuments_save(r) ==
  /\ At(r, "uploadVerificationDocuments", "w_save")
  /\ SaveAndRespond(r, 200)
  /\ UNCHANGED <<tz, role, appts, files, now, nreq, nextId, nextUrl>>

\* an awaited call rejects: catch (error) { res.status(500) }
uploadVerificationDocuments_throw(r) ==
  /\ req[r].op = "uploadVerificationDocuments"
  /\ req[r].pc \in {"w_findOne", "w_upload", "w_save"}
  /\ Respond(r, 500)
  /\ UNCHANGED <<tz, role, doctors, appts, files, now, nreq, nextId, nextUrl>>

uploadVerificationDocuments(r) ==
  \/ uploadVerificationDocuments_start(r)
  \/ uploadVerificationDocuments_findOne(r)
  \/ uploadVerificationDocuments_upload(r)
  \/ uploadVerificationDocuments_save(r)
  \/ uploadVerificationDocuments_throw(r)

(***************************************************************************)
(* The profile of one doctor under the handlers that edit it, one request  *)
(* at a time.                                                              *)
(***************************************************************************)
\* the profile of the doctor the behaviours start from
OldProfile ==
  [f \in UpdatableFields |->
     CASE f \in {"experience", "consultationFee"} -> "3"
       [] f = "bio" -> "'old'"
       [] f = "clinicDetails" -> "{name}"
       [] f \in {"videoConsultation", "acceptingNewPatients"} -> "true"
       [] OTHER -> "['old']"]

InitProfile ==
  /\ role = [u \in UserIds |-> CASE u = "u1" -> "doctor"
                                  [] u = "u2" -> "user"
                                  [] u = "u3" -> "admin"
                                  [] OTHER -> "none"]
  /\ \E verified \in BOOLEAN :
       doctors = {[NewDoctor(1, "u1", "r1",
                             <<[url |-> 1, verified |-> verified]>>) EXCEPT
                     !.isVerified = verified, !.profile = OldProfile]}
  /\ appts = {}
  /\ files = {1}
  /\ now = 0
  /\ tz = 0
  /\ req = [r \in Slots |-> Idle]
  /\ nreq = 0
  /\ nextId = 2
  /\ nextUrl = 2

NextProfile ==
  \E r \in Slots :
    \/ updateDoctor(r)
    \/ updateDoctorProfile(r)
    \/ updateDoctorAvailability(r)
    \/ uploadVerificationDocuments(r)
    \/ verifyDoctor(r)
    \/ rejectDoctor(r)
    \/ deleteDoctorByAdmin(r)

SpecProfile == InitProfile /\ [][NextProfile]_vars

(***************************************************************************)
(* Properties of the handlers that edit a profile                          *)
(***************************************************************************)
\* request q is in flight and its requester is not allowed what it asks:
\* neither owner nor admin for updateDoctor, not the owner for
\* updateDoctorAvailability (of a doctor that exists), not an admin for
\* verifyDoctor, rejectDoctor and deleteDoctorByAdmin
Unauthorized(q) ==
  /\ q.pc # "done"
  /\ \/ /\ q.op = "updateDoctor"
        /\ \E d \in DoctorsById(q.doctorId) : d.user # q.user /\ q.authRole # "admin"
     \/ /\ q.op = "updateDoctorAvailability"
        /\ \E d \in DoctorsById(q.doctorId) : d.user # q.user
     \/ /\ q.op \in {"verifyDoctor", "rejectDoctor", "deleteDoctorByAdmin"}
        /\ q.authRole # "admin"

\* the step answers request r with one of codes
AnsweredWith(r, codes) == req'[r].pc = "done" /\ req'[r].resp \in codes

\* C17: a request of updateDoctor, updateDoctorAvailability, verifyDoctor,
\* rejectDoctor or deleteDoctorByAdmin whose requester is not authorized is
\* answered 403 by the handler's next step (500 when the lookup in front of
\* the test fails), and doctors, roles, appointments and stored files are
\* left as they were
C17_UnauthorizedRejected ==
  [][\A r \in Slots :
       Unauthorized(req[r]) =>
         /\ AnsweredWith(r, {403, 500})
         /\ req[r].pc \in {"k_auth", "j_auth", "a_auth"} => AnsweredWith(r, {403})
         /\ UNCHANGED <<doctors, role, appts, files>>]_vars

\* an unauthorized updateDoctor was answered 403 while the profile exists
C17_Witness ==
  \E r \in Slots :
    /\ req[r].op = "updateDoctor"
    /\ req[r].resp = 403
    /\ doctors # {}

\* the step is a successful save of updateDoctor or updateDoctorProfile by
\* slot r
ProfileSaved(r) ==
  /\ req[r].op \in {"updateDoctor", "updateDoctorProfile"}
  /\ req[r].pc \in {"u_save", "f_save"}
  /\ AnsweredWith(r, {200})

\* the stored profile before and after the step, of the document slot r read
StoredBefore(r) == {d \in doctors : d.id = req[r].orig.id}
StoredAfter(r) == {d \in doctors' : d.id = req[r].orig.id}

\* a successful save of updateDoctor or updateDoctorProfile leaves every
\* field the body does not give, and sets every field the body gives with a
\* value other than 0 and the empty string
C18_TruthyFieldsSet ==
  [][\A r \in Slots :
       ProfileSaved(r) =>
         \A d \in StoredBefore(r), e \in StoredAfter(r), f \in UpdatableFields :
           /\ req[r].body[f] = "undefined" => e.profile[f] = d.profile[f]
           /\ req[r].body[f] \notin {"undefined", "0", "''"}
                => e.profile[f] = req[r].body[f]]_vars

\* C18: a successful save of updateDoctor or updateDoctorProfile sets every
\* field the body gives to the body's value, 0, false and the empty string
\* included, and leaves every field the body does not give
C18_ProvidedFieldsSet ==
  [][\A r \in Slots :
       ProfileSaved(r) =>
         \A d \in StoredBefore(r), e \in StoredAfter(r), f \in UpdatableFields :
           e.profile[f] = IF req[r].body[f] # "undefined" THEN req[r].body[f]
                          ELSE d.profile[f]]_vars

(***************************************************************************)
(* getDoctorDashboardStats, GET /api/doctors/dashboard-stats               *)
(*                                                                         *)
(* Instants are counted in ticks of the clock of getDoctorAvailability;    *)
(* the monthly counts are those of getMonthlyAppointmentStats above.       *)
(***************************************************************************)
MaxDashReq == 1          \* dashboard requests received in one behaviour

\* today.setHours(0, 0, 0, 0): local midnight of the day of t
Midnight(t) == (LocalDay(t) * TicksPerDay) - (tz * TicksPerSecond)

\* date.setDate(date.getDate() + n)
AddDays(t, n) == t + (n * TicksPerDay)

\* Appointment.find({ doctor, appointmentDate: { $gte: today, $lt: tomorrow } })
TodayAppointments(doctorId, today, tomorrow) ==
  {a \in ApptIds : /\ appts[a].doctor = doctorId
                   /\ appts[a].appointmentDate >= today
                   /\ appts[a].appointmentDate < tomorrow}

\* Appointment.find({ doctor, appointmentDate: { $gt: tomorrow, $lte: nextWeek },
\* status: 'scheduled' })
UpcomingAppointments(doctorId, tomorrow, nextWeek) ==
  {a \in ApptIds : /\ appts[a].doctor = doctorId
                   /\ appts[a].appointmentDate > tomorrow
                   /\ appts[a].appointmentDate <= nextWeek
                   /\ appts[a].status = "scheduled"}

\* the request arrives
getDoctorDashboardStats_start(r) ==
  /\ \E u \in {"u1", "u2"} :
       Arrive(r, Request([op |-> "getDoctorDashboardStats", pc |-> "h_findOne",
                          user |-> u, doctorId |-> 0, today |-> 0, tomorrow |-> 0,
                          todayAppointments |-> {}, upcomingAppointments |-> 0,
                          totalAppointments |-> 0, totalPatients |-> 0]),
              MaxDashReq)
  /\ UNCHANGED <<tz, role, doctors, appts, files, now, nextId, nextUrl>>

\* const doctor = await Doctor.findOne({ user: userId }): 404 without one,
\* else today and tomorrow are computed
getDoctorDashboardStats_findOne(r) ==
  /\ At(r, "getDoctorDashboardStats", "h_findOne")
  /\ IF DoctorsOfUser(req[r].user) = {}
       THEN Respond(r, 404)
       ELSE \E doctor \in DoctorsOfUser(req[r].user) :
              req' = [req EXCEPT ![r].doctorId = doctor.id,
                                 ![r].today = Midnight(now),
                                 ![r].tomorrow = AddDays(Midnight(now), 1),
                                 ![r].pc = "h_today"]
  /\ UNCHANGED <<tz, role, doctors, appts, files, now, nreq, nextId, nextUrl>>

\* const todayAppointments = await Appointment.find(...)
getDoctorDashboardStats_today(r) ==
  /\ At(r, "getDoctorDashboardStats", "h_today")
  /\ req' = [req EXCEPT
       ![r].todayAppointments =
          TodayAppointments(req[r].doctorId, req[r].today, req[r].tomorrow),
       ![r].pc = "h_upcoming"]
  /\ UNCHANGED <<tz, role, doctors, appts, files, now, nreq, nextId, nextUrl>>

\* const nextWeek = today + 7 days;
\* const upcomingAppointments = await Appointment.find(...).countDocuments()
getDoctorDashboardStats_upcoming(r) ==
  /\ At(r, "getDoctorDashboardStats", "h_upcoming")
  /\ LET nextWeek == AddDays(req[r].today, 7)
     IN req' = [req EXCEPT
          ![r].upcomingAppointments =
             Cardinality(UpcomingAppointments(req[r].doctorId, req[r].tomorrow,
                                              nextWeek)),
          ![r].pc = "h_total"]
  /\ UNCHANGED <<tz, role, doctors, appts, files, now, nreq, nextId, nextUrl>>

\* const totalAppointments = await Appointment.find({ doctor }).countDocuments()
getDoctorDashboardStats_total(r) ==
  /\ At(r, "getDoctorDashboardStats", "h_total")
  /\ req' = [req EXCEPT
       ![r].totalAppointments =
          Cardinality({a \in ApptIds : appts[a].doctor = req[r].doctorId}),
       ![r].pc = "h_distinct"]
  /\ UNCHANGED <<tz, role, doctors, appts, files, now, nreq, nextId, nextUrl>>

\* const uniquePatients = await Appointment.distinct('patient', { doctor })
getDoctorDashboardStats_distinct(r) ==
  /\ At(r, "getDoctorDashboardStats", "h_distinct")
  /\ req' = [req EXCEPT
       ![r].totalPatients = Cardinality(PatientsOfDoctor(req[r].doctorId)),
       ![r].pc = "h_monthly"]
  /\ UNCHANGED <<tz, role, doctors, appts, files, now, nreq, nextId, nextUrl>>

\* const monthlyStats = await getMonthlyAppointmentStats(doctorId) resolves;
\* res.status(200).json({ data: { todayAppointments, upcomingAppointments,
\* totalAppointments, totalPatients, ... } })
getDoctorDashboardStats_monthly(r) ==
  /\ At(r, "getDoctorDashboardStats", "h_monthly")
  /\ req' = [req EXCEPT ![r] =
               Done(@, 200) @@
               [doctorId |-> @.doctorId,
                data |-> [todayAppointments |-> @.todayAppointments,
                          upcomingAppointments |-> @.upcomingAppointments,
                          totalAppointments |-> @.totalAppointments,
                          totalPatients |-> @.totalPatients]]]
  /\ UNCHANGED <<tz, role, doctors, appts, files, now, nreq, nextId, nextUrl>>

\* an awaited call rejects: catch (error) { res.status(500) }
getDoctorDashboardStats_throw(r) ==
  /\ req[r].op = "getDoctorDashboardStats"
  /\ req[r].pc \in {"h_findOne", "h_today", "h_upcoming", "h_total", "h_distinct",
                    "h_monthly"}
  /\ Respond(r, 500)
  /\ UNCHANGED <<tz, role, doctors, appts, files, now, nreq, nextId, nextUrl>>

getDoctorDashboardStats(r) ==
  \/ getDoctorDashboardStats_start(r)
  \/ getDoctorDashboardStats_findOne(r)
  \/ getDoctorDashboardStats_today(r)
  \/ getDoctorDashboardStats_upcoming(r)
  \/ getDoctorDashboardStats_total(r)
  \/ getDoctorDashboardStats_distinct(r)
  \/ getDoctorDashboardStats_monthly(r)
  \/ getDoctorDashboardStats_throw(r)

\* The request is served during day 7 (2024-01-08) of some server; doctor 1
\* has an appointment a1 dated from the day before to nine days later, and
\* a2, of doctor 1 or 2, is dated at the instant of the request.
InitDash ==
  /\ role = [u \in UserIds |-> CASE u = "u0" -> "none" [] u = "u1" -> "doctor"
                                  [] u = "u2" -> "user" [] u = "u3" -> "admin"]
  /\ doctors = {NewDoctor(1, "u1", "r1", <<>>)}
  /\ tz \in Offsets
  /\ now \in (7 * TicksPerDay)..(8 * TicksPerDay - 1)
  /\ \E t \in (6 * TicksPerDay)..(17 * TicksPerDay),
        s \in {"scheduled", "completed"}, id2 \in DoctorIds :
       appts = [a \in ApptIds |->
                  IF a = "a1" THEN Appointment(1, "p1", s, t)
                              ELSE Appointment(id2, "p2", "scheduled", now)]
  /\ files = {}
  /\ req = [r \in Slots |-> Idle]
  /\ nreq = 0
  /\ nextId = 2
  /\ nextUrl = 1

NextDash == \E r \in Slots : getDoctorDashboardStats(r)

SpecDash == InitDash /\ [][NextDash]_vars

(***************************************************************************)
(* Properties of getDoctorDashboardStats                                   *)
(***************************************************************************)
\* the dashboard was returned in slot r
DashReturned(r) ==
  /\ req[r].op = "getDoctorDashboardStats"
  /\ req[r].pc = "done"
  /\ req[r].resp = 200

\* the appointments of the doctor dated on the server's calendar day n days
\* after the day of the request
DatedOnDay(doctorId, n) ==
  {a \in ApptIds : /\ appts[a].doctor = doctorId
                   /\ LocalDay(appts[a].appointmentDate) = LocalDay(now) + n}

\* the scheduled appointments of the doctor dated from the instant from up to
\* and including the instant to
ScheduledWithin(doctorId, from, to) ==
  {a \in ApptIds : /\ appts[a].doctor = doctorId
                   /\ appts[a].status = "scheduled"
                   /\ appts[a].appointmentDate >= from
                   /\ appts[a].appointmentDate <= to}

\* todayAppointments lists the appointments dated today, and
\* upcomingAppointments counts the scheduled ones dated after 00:00 of
\* tomorrow, up to 00:00 of the day seven days after today
C19_Windows ==
  \A r \in Slots :
    DashReturned(r) =>
      /\ req[r].data.todayAppointments = DatedOnDay(req[r].doctorId, 0)
      /\ req[r].data.upcomingAppointments =
           Cardinality(ScheduledWithin(req[r].doctorId,
                                       AddDays(Midnight(now), 1) + 1,
                                       AddDays(Midnight(now), 7)))

\* C19: todayAppointments lists the appointments dated today, and
\* upcomingAppointments counts the scheduled appointments dated from 00:00 of
\* tomorrow through 00:00 of the day seven days after today, so that every
\* scheduled appointment from today 00:00 to that instant is in one of them
C19_TodayAndNextSevenDays ==
  \A r \in Slots :
    DashReturned(r) =>
      /\ req[r].data.todayAppointments = DatedOnDay(req[r].doctorId, 0)
      /\ req[r].data.upcomingAppointments =
           Cardinality(ScheduledWithin(req[r].doctorId,
                                       AddDays(Midnight(now), 1),
                                       AddDays(Midnight(now), 7)))

(***************************************************************************)
(* Verification of a profile: createDoctor, updateDoctor with files,       *)
(* uploadVerificationDocuments, verifyDoctor and rejectDoctor, with two    *)
(* requests in flight.                                                     *)
(***************************************************************************)
\* a request of updateDoctor by the owner, with files and an empty body
updateDoctor_startFiles(r) ==
  /\ \E n \in 0..MaxFiles :
       Arrive(r, Request([op |-> "updateDoctor", pc |-> "u_findById", user |-> "u1",
                          doctorId |-> 1, body |-> EmptyBody,
                          availability |-> [given |-> FALSE, value |-> <<>>],
                          files |-> n, i |-> 1,
                          orig |-> NoDoctor, doctor |-> NoDoctor]),
              MaxProfileReq)
  /\ UNCHANGED <<tz, role, doctors, appts, files, now, nextId, nextUrl>>

updateDoctorFiles(r) ==
  \/ updateDoctor_startFiles(r)
  \/ updateDoctor_findById(r)
  \/ updateDoctor_upload(r)
  \/ updateDoctor_save(r)
  \/ updateDoctor_throw(r)

InitVerify ==
  /\ role = [u \in UserIds |-> CASE u = "u1" -> "doctor"
                                  [] u = "u2" -> "user"
                                  [] u = "u3" -> "admin"
                                  [] OTHER -> "none"]
  /\ \E verified \in BOOLEAN :
       doctors = {[NewDoctor(1, "u1", "r1",
                             <<[url |-> 1, verified |-> verified]>>) EXCEPT
                     !.isVerified = verified, !.profile = OldProfile]}
  /\ appts = {}
  /\ files = {1}
  /\ now = 0
  /\ tz = 0
  /\ req = [r \in ReviewSlots |-> Idle]
  /\ nreq = 0
  /\ nextId = 2
  /\ nextUrl = 2

NextVerify ==
  \E r \in ReviewSlots :
    \/ createDoctor(r)
    \/ updateDoctorFiles(r)
    \/ uploadVerificationDocuments(r)
    \/ verifyDoctor(r)
    \/ rejectDoctor(r)

SpecVerify == InitVerify /\ [][NextVerify]_vars

(***************************************************************************)
(* Properties of the verification of a profile                             *)
(***************************************************************************)
\* every verification document of doctor d is marked verified
DocumentsVerified(d) ==
  \A i \in 1..Len(d.verificationDocuments) : d.verificationDocuments[i].verified

\* C20: a doctor with isVerified true has every verification document
\* marked verified
C20_VerifiedHasVerifiedDocuments ==
  \A d \in doctors : d.isVerified => DocumentsVerified(d)

(***************************************************************************)
(* Further properties of the transactional handlers                        *)
(***************************************************************************)
\* after a successful deleteDoctor, no appointment of a doctor without a
\* profile has status 'scheduled'
C21_DeleteDoctorCancels ==
  [][\A r \in Slots :
       (deleteDoctor_commit(r) /\ req'[r].resp = 200)
       => \A a \in ApptIds :
            appts'[a].status = "scheduled"
              => \E d \in doctors' : d.id = appts'[a].doctor]_vars

\* C21: every appointment with status 'scheduled' refers to a Doctor profile
\* that exists
C21_ScheduledHasDoctor ==
  \A a \in ApptIds :
    appts[a].status = "scheduled" => DoctorsById(appts[a].doctor) # {}

\* request r of a transactional handler was answered with one of codes
TransactionalAnswer(r, codes) ==
  /\ req[r].op \in Transactional
  /\ req[r].pc = "done"
  /\ req[r].resp \in codes

\* a transactional handler commits before it answers 200 or 201 and aborts
\* before it answers 500; when it answers 400, 403 or 404 the transaction is
\* open and holds no write, and is left to session.endSession()
C22_CommittedAbortedOrEmpty ==
  \A r \in Slots :
    /\ TransactionalAnswer(r, {200, 201}) => req[r].transaction = "committed"
    /\ TransactionalAnswer(r, {500}) => req[r].transaction = "aborted"
    /\ TransactionalAnswer(r, {400, 403, 404})
         => req[r].transaction = "open" /\ req[r].dropped = 0 /\ req[r].eff = {}

\* deleteDoctorByAdmin answered 403 with its transaction open
C22_Witness ==
  \E r \in Slots :
    /\ req[r].op = "deleteDoctorByAdmin"
    /\ TransactionalAnswer(r, {403})
    /\ req[r].transaction = "open"

\* C22: whenever createDoctor, deleteDoctorByAdmin or deleteDoctor has sent
\* a response, 400, 403 and 404 included, the transaction it started was
\* committed or aborted before
C22_NoResponseWhileOpen ==
  \A r \in Slots :
    TransactionalAnswer(r, {200, 201, 400, 403, 404, 500})
      => req[r].transaction \in {"committed", "aborted"}

\* C23: no two Doctor profiles share a registrationNumber
C23_RegistrationNumberUnique ==
  \A d1, d2 \in doctors :
    d1.registrationNumber = d2.registrationNumber => d1.id = d2.id

====
